
---------------------------- MODULE Spec2Model ----------------------------
(***************************************************************************)
(* BlockAndFocus daemon: the shared AppState (config store, domain        *)
(* matcher, schedule engine, quiz engine, bypass deadline, counters), the *)
(* IPC command handlers that mutate it and the DNS query task that reads  *)
(* it.  Strings are sequences of one-character strings, so that           *)
(* normalisation and suffix matching are computed character by character. *)
(***************************************************************************)
EXTENDS Integers, Sequences, FiniteSets, TLC

VARIABLES
    config,          \* ConfigManager.config: the in-memory Config
    disk,            \* the config file: <<>> (absent) or <<Config>>
    schedule,        \* ScheduleEngine.schedule
    blocker,         \* DomainBlocker.blocked_domains
    pending,         \* QuizEngine.pending: challenge id -> PendingChallenge
    issued,          \* number of challenge ids drawn so far (Uuid::new_v4)
    bypass_until,    \* AppState.bypass_until: <<>> (None) or <<t>> (Some(t))
    stats,           \* AppState.stats
    now,             \* wall clock, seconds since the epoch (Utc::now().timestamp())
    mono,            \* monotonic clock, seconds (Instant::now())
    task,            \* the DNS query task spawned for a datagram
    last,            \* the last IPC command and the response written for it
    conn,            \* the IPC connection followed: lines to read, lines written
    ui,              \* the UI's set_schedule_enabled call: where it is, what it fetched
    lock,            \* the AppState lock and the config lock: holders and waiters
    thread           \* the tasks followed lock by lock: their command and position

vars == <<config, disk, schedule, blocker, pending, issued, bypass_until,
          stats, now, mono, task, last, conn, ui, lock, thread>>

\* who runs a handler: the connection followed, the UI client, and the tasks
\* followed lock by lock
callers == <<conn, ui, lock, thread>>

-----------------------------------------------------------------------------
(* Strings *)

LowerChar(c) ==
    CASE c = "A" -> "a"
      [] c = "B" -> "b"
      [] c = "W" -> "w"
      [] OTHER -> c

\* str::to_lowercase
ToLower(s) == [i \in 1..Len(s) |-> LowerChar(s[i])]

IsWhitespace(c) == c = " "

RECURSIVE TrimStart(_)
TrimStart(s) ==
    IF s # <<>> /\ IsWhitespace(Head(s)) THEN TrimStart(Tail(s)) ELSE s

RECURSIVE TrimEnd(_)
TrimEnd(s) ==
    IF s # <<>> /\ IsWhitespace(s[Len(s)])
    THEN TrimEnd(SubSeq(s, 1, Len(s) - 1))
    ELSE s

\* str::trim
Trim(s) == TrimEnd(TrimStart(s))

\* str::trim_end_matches('.')
RECURSIVE TrimEndMatchesDot(_)
TrimEndMatchesDot(s) ==
    IF s # <<>> /\ s[Len(s)] = "."
    THEN TrimEndMatchesDot(SubSeq(s, 1, Len(s) - 1))
    ELSE s

\* str::ends_with
EndsWith(s, suffix) ==
    /\ Len(suffix) <= Len(s)
    /\ SubSeq(s, Len(s) - Len(suffix) + 1, Len(s)) = suffix

\* Vec::contains
Contains(list, x) == \E i \in 1..Len(list) : list[i] = x

\* Iterator::position: the first index holding x, 0 when there is none
Position(list, x) ==
    IF Contains(list, x)
    THEN CHOOSE i \in 1..Len(list) :
            /\ list[i] = x
            /\ \A j \in 1..(i - 1) : list[j] # x
    ELSE 0

\* Vec::remove(pos)
RemoveAt(list, pos) ==
    SubSeq(list, 1, pos - 1) \o SubSeq(list, pos + 1, Len(list))

-----------------------------------------------------------------------------
(* Domain matcher: daemon/src/dns/blocker.rs *)

\* blocker.rs normalize_domain
normalize_domain(domain) == TrimEndMatchesDot(Trim(ToLower(domain)))

\* config/loader.rs normalize_domain
config_normalize_domain(domain) == TrimEndMatchesDot(Trim(ToLower(domain)))

\* DomainBlocker::new / DomainBlocker::update_domains
update_domains(domains) ==
    [i \in 1..Len(domains) |-> normalize_domain(domains[i])]

\* the suffix test without the separating dot
entry_matches_undotted(normalized, blocked) ==
    \/ normalized = blocked
    \/ EndsWith(normalized, blocked)

\* the two tests of one loop iteration of DomainBlocker::should_block
entry_matches(normalized, blocked) ==
    \/ normalized = blocked
    \/ EndsWith(normalized, <<".">> \o blocked)

\* DomainBlocker::should_block over the stored list
RECURSIVE should_block_from(_, _, _)
should_block_from(blocked_domains, normalized, i) ==
    IF i > Len(blocked_domains) THEN FALSE
    ELSE IF entry_matches(normalized, blocked_domains[i]) THEN TRUE
    ELSE should_block_from(blocked_domains, normalized, i + 1)

should_block(blocked_domains, query_domain) ==
    should_block_from(blocked_domains, normalize_domain(query_domain), 1)

-----------------------------------------------------------------------------
(* Clock readings *)

SecondsPerDay == 86400

Weekdays == <<"mon", "tue", "wed", "thu", "fri", "sat", "sun">>

\* Local::now().weekday(): the epoch fell on a Thursday; local time is UTC
LocalWeekday(t) == Weekdays[(((t \div SecondsPerDay) + 3) % 7) + 1]

\* Local::now().time(), as seconds since local midnight
LocalTime(t) == t % SecondsPerDay

\* NaiveTimeWrapper: a time of day parsed from "HH:MM", as seconds since midnight
TimeOfDay(hm) == hm.hour * 3600 + hm.minute * 60

-----------------------------------------------------------------------------
(* Time wrapper: shared/src/lib.rs; a NaiveTime read from and written as text *)

DigitChars == <<"0", "1", "2", "3", "4", "5", "6", "7", "8", "9">>

IsDigit(c) == \E d \in 1..Len(DigitChars) : DigitChars[d] = c

DigitValue(c) == (CHOOSE d \in 1..Len(DigitChars) : DigitChars[d] = c) - 1

\* a number written in decimal, without padding
RECURSIVE to_decimal(_)
to_decimal(n) ==
    IF n < 10 THEN <<DigitChars[n + 1]>>
    ELSE to_decimal(n \div 10) \o <<DigitChars[(n % 10) + 1]>>

\* %H, %M of format(): the number zero-padded to two digits
pad2(n) == IF n < 10 THEN <<"0">> \o to_decimal(n) ELSE to_decimal(n)

\* the time written without the padding
format_hm_unpadded(tm) == to_decimal(tm.hour) \o <<":">> \o to_decimal(tm.minute)

\* Serialize for NaiveTimeWrapper: format("%H:%M")
format_hm(tm) == pad2(tm.hour) \o <<":">> \o pad2(tm.minute)

\* %H, %M of parse_from_str: one or two digits; -1 when s is not that
scan_number(s) ==
    IF Len(s) \in {1, 2} /\ \A i \in 1..Len(s) : IsDigit(s[i])
    THEN IF Len(s) = 1 THEN DigitValue(s[1])
         ELSE DigitValue(s[1]) * 10 + DigitValue(s[2])
    ELSE -1

\* Deserialize for NaiveTimeWrapper: parse_from_str(s, "%H:%M"); <<>> is Err
parse_hm(s) ==
    LET colons == {i \in 1..Len(s) : s[i] = ":"}
    IN  IF Cardinality(colons) # 1 THEN <<>>
        ELSE LET p == CHOOSE i \in colons : TRUE
                 hour == scan_number(SubSeq(s, 1, p - 1))
                 minute == scan_number(SubSeq(s, p + 1, Len(s)))
             IN  IF hour \in 0..23 /\ minute \in 0..59
                 THEN <<[hour |-> hour, minute |-> minute]>>
                 ELSE <<>>

-----------------------------------------------------------------------------
(* Schedule engine: daemon/src/schedule/engine.rs *)

\* the window test with the end of a same-day window included
rule_matches_end_included(rule, current_day, current_time) ==
    LET day_matches == \E i \in 1..Len(rule.days) : rule.days[i] = current_day
        start == TimeOfDay(rule.start_time)
        end == TimeOfDay(rule.end_time)
    IN  IF ~day_matches THEN FALSE
        ELSE IF start <= end
             THEN current_time >= start /\ current_time <= end
             ELSE current_time >= start \/ current_time < end

\* ScheduleEngine::rule_matches
rule_matches(rule, current_day, current_time) ==
    LET day_matches == \E i \in 1..Len(rule.days) : rule.days[i] = current_day
        start == TimeOfDay(rule.start_time)
        end == TimeOfDay(rule.end_time)
    IN  IF ~day_matches THEN FALSE
        ELSE IF start <= end
             THEN current_time >= start /\ current_time < end
             ELSE current_time >= start \/ current_time < end

\* is_blocking_time without the test for an empty rule list placed first
is_blocking_time_empty_blocks(sched, t) ==
    IF ~sched.enabled \/ sched.rules = <<>> THEN TRUE
    ELSE \E i \in 1..Len(sched.rules) :
            rule_matches(sched.rules[i], LocalWeekday(t), LocalTime(t))

\* ScheduleEngine::is_blocking_time
is_blocking_time(sched, t) ==
    IF ~sched.enabled THEN TRUE
    ELSE IF sched.rules = <<>> THEN FALSE
    ELSE \E i \in 1..Len(sched.rules) :
            rule_matches(sched.rules[i], LocalWeekday(t), LocalTime(t))

\* active_rule_name returning the last matching rule
active_rule_name_last_match(sched, t) ==
    IF ~sched.enabled \/ sched.rules = <<>> THEN <<>>
    ELSE LET hits == {i \in 1..Len(sched.rules) :
                        rule_matches(sched.rules[i], LocalWeekday(t), LocalTime(t))}
         IN  IF hits = {} THEN <<>>
             ELSE <<sched.rules[CHOOSE i \in hits : \A j \in hits : i >= j].name>>

\* ScheduleEngine::active_rule_name: <<>> (None) or <<name>>
active_rule_name(sched, t) ==
    IF ~sched.enabled \/ sched.rules = <<>> THEN <<>>
    ELSE LET hits == {i \in 1..Len(sched.rules) :
                        rule_matches(sched.rules[i], LocalWeekday(t), LocalTime(t))}
         IN  IF hits = {} THEN <<>>
             ELSE <<sched.rules[CHOOSE i \in hits : \A j \in hits : i <= j].name>>

-----------------------------------------------------------------------------
(* Policy: daemon/src/main.rs *)

\* the minutes SubmitQuizAnswers passes to activate_bypass
BypassMinutes == 15

\* the deadline test with <= for <
bypass_in_force_inclusive(until, t) == until # <<>> /\ t <= until[1]

\* the test `now < bypass_until` of AppState::is_blocking_active
bypass_in_force(until, t) == until # <<>> /\ t < until[1]

\* AppState::is_blocking_active
is_blocking_active(cfg, sched, until, t) ==
    IF ~cfg.blocking.enabled THEN FALSE
    ELSE IF bypass_in_force(until, t) THEN FALSE
    ELSE IF cfg.schedule.enabled THEN is_blocking_time(sched, t)
    ELSE TRUE

\* the deadline computed without the conversion to seconds
activate_bypass_unscaled(duration_minutes, t) == <<t + duration_minutes>>

\* AppState::activate_bypass: the new deadline
activate_bypass(duration_minutes, t) == <<t + duration_minutes * 60>>

\* AppState::cancel_bypass: the new deadline
cancel_bypass == <<>>

-----------------------------------------------------------------------------
(* Quiz engine: daemon/src/quiz/generator.rs *)

Max(a, b) == IF a >= b THEN a ELSE b

\* the largest and the smallest i32
MaxI32 == 2147483647
MinI32 == -MaxI32 - 1

\* a + b leaves the i32 range
add_overflows(a, b) ==
    \/ b > 0 /\ a > MaxI32 - b
    \/ b < 0 /\ a < MinI32 - b

\* a - b leaves the i32 range
sub_overflows(a, b) ==
    \/ b < 0 /\ a > MaxI32 + b
    \/ b > 0 /\ a < MinI32 + b

\* a + b on i32 without overflow checks: the sum modulo 2^32, computed
\* without leaving the i32 range
add_i32(a, b) ==
    IF b > 0 /\ a > MaxI32 - b THEN (a - MaxI32) + (b - MaxI32) - 2
    ELSE IF b < 0 /\ a < MinI32 - b THEN (a + MaxI32) + (b + MaxI32) + 2
    ELSE a + b

\* a - b on i32 without overflow checks
sub_i32(a, b) ==
    IF b < 0 /\ a > MaxI32 + b THEN (a - MaxI32) - (b + MaxI32) - 2
    ELSE IF b > 0 /\ a < MinI32 + b THEN (a + MaxI32) - (b - MaxI32) + 2
    ELSE a - b

\* the integer square root of x >= 1 by Newton's iteration from r, a value
\* not below the root; no step leaves the i32 range
RECURSIVE isqrt_from(_, _)
isqrt_from(x, r) ==
    LET next == (r + x \div r) \div 2
    IN  IF next >= r THEN r ELSE isqrt_from(x, next)

\* (x as f64).sqrt() as i32, for an i32 x (a negative x gives NaN, cast to 0)
Isqrt(x) ==
    IF x <= 0 THEN 0
    ELSE isqrt_from(x, x \div 2 + 1)

\* the largest multiplication operand of generate_question
MulMax(quiz) == Max(Isqrt(quiz.max_operand), 12)

\* rng.gen_range(lo..=hi): the values one draw can return
gen_range(lo, hi) == lo..hi

\* the draws <<op, a, b>> generate_question can make: op 0 adds, 1 subtracts,
\* any other multiplies
QuestionDraws(quiz, draw) ==
    LET a == draw[2]
        b == draw[3]
    IN  CASE draw[1] = 0 -> /\ a \in gen_range(quiz.min_operand, quiz.max_operand)
                            /\ b \in gen_range(quiz.min_operand, quiz.max_operand)
          [] draw[1] = 1 -> /\ a \in gen_range(quiz.min_operand, quiz.max_operand)
                            /\ b \in gen_range(quiz.min_operand, a)
          [] draw[1] = 2 -> /\ a \in gen_range(2, MulMax(quiz))
                            /\ b \in gen_range(2, MulMax(quiz))
          [] OTHER       -> FALSE

\* the arithmetic of generate_question leaves the i32 range for the draw (a
\* product of two operands up to MulMax never does)
question_overflows(draw) ==
    CASE draw[1] = 0 -> add_overflows(draw[2], draw[3])
      [] draw[1] = 1 -> sub_overflows(draw[2], draw[3])
      [] OTHER       -> FALSE

\* QuizEngine::generate_question for one draw, built without overflow checks
generate_question(draw) ==
    LET a == draw[2]
        b == draw[3]
    IN  CASE draw[1] = 0 -> [display |-> <<a, "+", b>>, answer |-> add_i32(a, b)]
          [] draw[1] = 1 -> [display |-> <<a, "-", b>>, answer |-> sub_i32(a, b)]
          [] OTHER       -> [display |-> <<a, "x", b>>, answer |-> a * b]

\* QuizEngine::cleanup_expired
cleanup_expired(pend, t) ==
    [c \in {c \in DOMAIN pend : pend[c].expires_at > t} |-> pend[c]]

\* the expiry generate_challenge computes
challenge_expiry(quiz, t) == t + quiz.timeout_seconds

\* the pending table when the questions are stored last first
generate_challenge_answers_reversed(pend, quiz, id, draws, t, instant) ==
    LET kept == cleanup_expired(pend, t)
        entry == [questions  |-> [i \in 1..Len(draws) |->
                                     generate_question(draws[Len(draws) + 1 - i])],
                  created_at |-> instant,
                  expires_at |-> challenge_expiry(quiz, t)]
    IN  [c \in DOMAIN kept \cup {id} |-> IF c = id THEN entry ELSE kept[c]]

\* QuizEngine::generate_challenge: the pending table afterwards
generate_challenge(pend, quiz, id, draws, t, instant) ==
    LET kept == cleanup_expired(pend, t)
        entry == [questions  |-> [i \in 1..Len(draws) |-> generate_question(draws[i])],
                  created_at |-> instant,
                  expires_at |-> challenge_expiry(quiz, t)]
    IN  [c \in DOMAIN kept \cup {id} |-> IF c = id THEN entry ELSE kept[c]]

\* QuizEngine::generate_challenge: the QuizChallenge returned
wire_challenge(quiz, id, draws, t) ==
    [challenge_id |-> id,
     questions    |-> [i \in 1..Len(draws) |-> generate_question(draws[i]).display],
     expires_at   |-> challenge_expiry(quiz, t)]

\* the answer comparison loop of validate_answers
answers_match(questions, answers) ==
    \A i \in 1..Len(questions) : questions[i].answer = answers[i]

\* the expiry test of validate_answers
is_expired(challenge, t) == t > challenge.expires_at

\* the minimum solve time test of validate_answers
is_too_fast(challenge, quiz, instant) ==
    (instant - challenge.created_at) < quiz.min_solve_seconds

\* the verdict with the minimum solve time tested before the expiry
validate_answers_solve_time_first(pend, quiz, id, answers, t, instant) ==
    IF id \notin DOMAIN pend THEN "NotFound"
    ELSE IF is_too_fast(pend[id], quiz, instant) THEN "TooFast"
    ELSE IF is_expired(pend[id], t) THEN "Expired"
    ELSE IF Len(answers) # Len(pend[id].questions) THEN "WrongAnswerCount"
    ELSE IF ~answers_match(pend[id].questions, answers) THEN "WrongAnswer"
    ELSE "Ok"

\* QuizEngine::validate_answers: the verdict
validate_answers(pend, quiz, id, answers, t, instant) ==
    IF id \notin DOMAIN pend THEN "NotFound"
    ELSE IF is_expired(pend[id], t) THEN "Expired"
    ELSE IF is_too_fast(pend[id], quiz, instant) THEN "TooFast"
    ELSE IF Len(answers) # Len(pend[id].questions) THEN "WrongAnswerCount"
    ELSE IF ~answers_match(pend[id].questions, answers) THEN "WrongAnswer"
    ELSE "Ok"

\* the pending table when the entry is looked up and left in place
remove_pending_get(pend, id) == pend

\* the pending table when validation forgets every challenge
remove_pending_clears(pend, id) == <<>>

\* QuizEngine::validate_answers: the pending table afterwards (pending.remove)
remove_pending(pend, id) == [c \in DOMAIN pend \ {id} |-> pend[c]]

-----------------------------------------------------------------------------
(* Config store: daemon/src/config/loader.rs *)

\* the updater pushing without looking for the entry
add_domain_update_unchecked(cfg, domain) ==
    [cfg EXCEPT !.blocking.domains = Append(@, config_normalize_domain(domain))]

\* the updater closure of ConfigManager::add_domain
add_domain_update(cfg, domain) ==
    LET normalized == config_normalize_domain(domain)
    IN  IF ~Contains(cfg.blocking.domains, normalized)
        THEN [cfg EXCEPT !.blocking.domains = Append(@, normalized)]
        ELSE cfg

\* the flag from a search for the domain as it was given
remove_domain_found_raw(cfg, domain) ==
    Position(cfg.blocking.domains, domain) # 0

\* the `removed` flag of ConfigManager::remove_domain
remove_domain_found(cfg, domain) ==
    Position(cfg.blocking.domains, config_normalize_domain(domain)) # 0

\* the updater closure of ConfigManager::remove_domain
remove_domain_update(cfg, domain) ==
    LET pos == Position(cfg.blocking.domains, config_normalize_domain(domain))
    IN  IF pos # 0
        THEN [cfg EXCEPT !.blocking.domains = RemoveAt(@, pos)]
        ELSE cfg

\* a write that reports its outcome and leaves the file as it was
save_config_unwritten(file, cfg, write_ok) == file

\* ConfigManager::save_config: the file afterwards; a failed write leaves it as it was
save_config(file, cfg, write_ok) == IF write_ok THEN <<cfg>> ELSE file

\* ConfigManager::get / ConfigManager::blocked_domains
blocked_domains(cfg) == cfg.blocking.domains

-----------------------------------------------------------------------------
(* DNS frontend: daemon/src/dns/server.rs *)

\* Message::new()
NewMessage ==
    [id |-> 0, message_type |-> "Query", op_code |-> "Query",
     authoritative |-> FALSE, recursion_desired |-> FALSE,
     recursion_available |-> FALSE, response_code |-> "NoError",
     queries |-> <<>>, answers |-> <<>>]

\* the TTL of a synthetic answer
BlockedTtl == 60

\* the synthetic response with recursion_desired left as Message::new() has it
create_blocked_response_rd_unset(query, name, record_type) ==
    LET header == [NewMessage EXCEPT
                      !.id = query.id,
                      !.message_type = "Response",
                      !.op_code = "Query",
                      !.authoritative = FALSE,
                      !.recursion_available = TRUE,
                      !.queries = query.queries]
    IN  IF record_type = "A"
        THEN [header EXCEPT
                 !.response_code = "NoError",
                 !.answers = <<[name |-> name, ttl |-> BlockedTtl,
                                record_type |-> "A", rdata |-> "0.0.0.0"]>>]
        ELSE IF record_type = "AAAA"
        THEN [header EXCEPT
                 !.response_code = "NoError",
                 !.answers = <<[name |-> name, ttl |-> BlockedTtl,
                                record_type |-> "AAAA", rdata |-> "::"]>>]
        ELSE [header EXCEPT !.response_code = "NXDomain"]

\* DnsServer::create_blocked_response
create_blocked_response(query, name, record_type) ==
    LET header == [NewMessage EXCEPT
                      !.id = query.id,
                      !.message_type = "Response",
                      !.op_code = "Query",
                      !.authoritative = FALSE,
                      !.recursion_desired = query.recursion_desired,
                      !.recursion_available = TRUE,
                      !.queries = query.queries]
    IN  IF record_type = "A"
        THEN [header EXCEPT
                 !.response_code = "NoError",
                 !.answers = <<[name |-> name, ttl |-> BlockedTtl,
                                record_type |-> "A", rdata |-> "0.0.0.0"]>>]
        ELSE IF record_type = "AAAA"
        THEN [header EXCEPT
                 !.response_code = "NoError",
                 !.answers = <<[name |-> name, ttl |-> BlockedTtl,
                                record_type |-> "AAAA", rdata |-> "::"]>>]
        ELSE [header EXCEPT !.response_code = "NXDomain"]

\* SERVFAIL with the id left as Message::new() has it
create_servfail_response_id_unset(query) ==
    [NewMessage EXCEPT
        !.message_type = "Response",
        !.op_code = "Query",
        !.response_code = "ServFail",
        !.recursion_desired = query.recursion_desired,
        !.recursion_available = TRUE,
        !.queries = query.queries]

\* DnsServer::create_servfail_response
create_servfail_response(query) ==
    [NewMessage EXCEPT
        !.id = query.id,
        !.message_type = "Response",
        !.op_code = "Query",
        !.response_code = "ServFail",
        !.recursion_desired = query.recursion_desired,
        !.recursion_available = TRUE,
        !.queries = query.queries]

\* the TTL UpstreamResolver::build_response gives its records
UpstreamTtl == 300

\* UpstreamResolver::resolve on success: a message with id 0 holding the
\* records the lookup returned
upstream_response(name, record_type, rdatas) ==
    [NewMessage EXCEPT
        !.id = 0,
        !.message_type = "Response",
        !.op_code = "Query",
        !.response_code = "NoError",
        !.recursion_desired = TRUE,
        !.recursion_available = TRUE,
        !.queries = <<[name |-> name, query_type |-> record_type]>>,
        !.answers = [i \in 1..Len(rdatas) |->
                        [name |-> name, ttl |-> UpstreamTtl,
                         record_type |-> record_type, rdata |-> rdatas[i]]]]

\* the forwarding branch of handle_query: the upstream answer with its id
\* patched, or SERVFAIL; lookup is <<>> on failure, <<rdatas>> on success
forwarded_response(query, name, record_type, lookup) ==
    IF lookup = <<>> THEN create_servfail_response(query)
    ELSE [upstream_response(name, record_type, lookup[1]) EXCEPT !.id = query.id]

\* the decision taken from the matcher alone
query_decision_matcher_only(cfg, sched, until, domains, t, name) ==
    should_block(domains, name)

\* the decision handle_query takes under the read guard
query_decision(cfg, sched, until, domains, t, name) ==
    IF is_blocking_active(cfg, sched, until, t)
    THEN should_block(domains, name)
    ELSE FALSE

-----------------------------------------------------------------------------
(* IPC server: daemon/src/ipc/server.rs, IpcServer::handle_command.  Each    *)
(* handler runs under the AppState lock, so each is one step.                *)
(* A handler says nothing of the connection it answers on: the step that    *)
(* runs it does.                                                             *)

\* a response line: the command it answers, its type and, for an Error, its code
Response(cmd, type, code) == [cmd |-> cmd, type |-> type, code |-> code]

\* the mapping with Expired reported as a failed quiz
quiz_error_code_expired_failed(verdict) ==
    CASE verdict = "NotFound" -> "quiz_not_found"
      [] verdict = "TooFast" -> "quiz_too_fast"
      [] verdict \in {"Expired", "WrongAnswerCount", "WrongAnswer"} -> "quiz_failed"

\* the ErrorCode SubmitQuizAnswers reports for a QuizError
quiz_error_code(verdict) ==
    CASE verdict = "NotFound" -> "quiz_not_found"
      [] verdict = "Expired" -> "quiz_expired"
      [] verdict = "TooFast" -> "quiz_too_fast"
      [] verdict \in {"WrongAnswerCount", "WrongAnswer"} -> "quiz_failed"

\* the Status GetStatus reports in the current state
StatusPayload ==
    [blocking_active       |-> is_blocking_active(config, schedule, bypass_until, now),
     blocked_domains_count |-> Len(config.blocking.domains),
     queries_blocked       |-> stats.queries_blocked,
     queries_forwarded     |-> stats.queries_forwarded,
     bypass_until          |-> bypass_until,
     active_schedule_rule  |-> active_rule_name(schedule, now),
     schedule_enabled      |-> config.schedule.enabled]

Ping ==
    /\ last' = Response("Ping", "Pong", "")
    /\ UNCHANGED <<config, disk, schedule, blocker, pending, issued,
                   bypass_until, stats, now, mono, task>>

GetStatus ==
    /\ last' = Response("GetStatus", "Status", "")
    /\ UNCHANGED <<config, disk, schedule, blocker, pending, issued,
                   bypass_until, stats, now, mono, task>>

GetBlocklist ==
    /\ last' = Response("GetBlocklist", "Blocklist", "")
    /\ UNCHANGED <<config, disk, schedule, blocker, pending, issued,
                   bypass_until, stats, now, mono, task>>

\* AddDomain leaving the matcher as it was
AddDomain_config_only(domain, write_ok) ==
    LET cfg == add_domain_update(config, domain)
    IN  /\ config' = cfg
        /\ disk' = save_config(disk, cfg, write_ok)
        /\ blocker' = blocker
        /\ last' = IF write_ok THEN Response("AddDomain", "Success", "")
                   ELSE Response("AddDomain", "Error", "config_error")
        /\ UNCHANGED <<schedule, pending, issued, bypass_until, stats, now,
                       mono, task>>

AddDomain(domain, write_ok) ==
    LET cfg == add_domain_update(config, domain)
    IN  /\ config' = cfg
        /\ disk' = save_config(disk, cfg, write_ok)
        /\ IF write_ok
           THEN /\ blocker' = update_domains(blocked_domains(cfg))
                /\ last' = Response("AddDomain", "Success", "")
           ELSE /\ blocker' = blocker
                /\ last' = Response("AddDomain", "Error", "config_error")
        /\ UNCHANGED <<schedule, pending, issued, bypass_until, stats, now,
                       mono, task>>

\* RemoveDomain refreshing the matcher before it looks at the result of the write
RemoveDomain_refresh_first(domain, write_ok) ==
    LET cfg == remove_domain_update(config, domain)
        removed == remove_domain_found(config, domain)
    IN  /\ config' = cfg
        /\ disk' = save_config(disk, cfg, write_ok)
        /\ blocker' = update_domains(blocked_domains(cfg))
        /\ last' = IF ~write_ok THEN Response("RemoveDomain", "Error", "config_error")
                   ELSE IF removed THEN Response("RemoveDomain", "Success", "")
                   ELSE Response("RemoveDomain", "Error", "invalid_domain")
        /\ UNCHANGED <<schedule, pending, issued, bypass_until, stats, now,
                       mono, task>>

RemoveDomain(domain, write_ok) ==
    LET cfg == remove_domain_update(config, domain)
        removed == remove_domain_found(config, domain)
    IN  /\ config' = cfg
        /\ disk' = save_config(disk, cfg, write_ok)
        /\ IF ~write_ok
           THEN /\ blocker' = blocker
                /\ last' = Response("RemoveDomain", "Error", "config_error")
           ELSE IF removed
           THEN /\ blocker' = update_domains(blocked_domains(cfg))
                /\ last' = Response("RemoveDomain", "Success", "")
           ELSE /\ blocker' = blocker
                /\ last' = Response("RemoveDomain", "Error", "invalid_domain")
        /\ UNCHANGED <<schedule, pending, issued, bypass_until, stats, now,
                       mono, task>>

GetSchedule ==
    /\ last' = Response("GetSchedule", "Schedule", "")
    /\ UNCHANGED <<config, disk, schedule, blocker, pending, issued,
                   bypass_until, stats, now, mono, task>>

\* UpdateSchedule handing the schedule to the engine only once it is written
UpdateSchedule_engine_after_write(new_schedule, write_ok) ==
    LET cfg == [config EXCEPT !.schedule = new_schedule]
    IN  /\ schedule' = IF write_ok THEN new_schedule ELSE schedule
        /\ config' = cfg
        /\ disk' = save_config(disk, cfg, write_ok)
        /\ last' = IF write_ok
                   THEN Response("UpdateSchedule", "Success", "")
                   ELSE Response("UpdateSchedule", "Error", "config_error")
        /\ UNCHANGED <<blocker, pending, issued, bypass_until, stats, now,
                       mono, task>>

UpdateSchedule(new_schedule, write_ok) ==
    LET cfg == [config EXCEPT !.schedule = new_schedule]
    IN  /\ schedule' = new_schedule
        /\ config' = cfg
        /\ disk' = save_config(disk, cfg, write_ok)
        /\ last' = IF write_ok
                   THEN Response("UpdateSchedule", "Success", "")
                   ELSE Response("UpdateSchedule", "Error", "config_error")
        /\ UNCHANGED <<blocker, pending, issued, bypass_until, stats, now,
                       mono, task>>

\* RequestBypass keeping the requested duration as the bypass deadline
RequestBypass_keeps_duration(duration_minutes, draws) ==
    LET id == issued + 1
    IN  /\ Len(draws) = config.quiz.num_questions
        /\ \A i \in 1..Len(draws) : QuestionDraws(config.quiz, draws[i])
        /\ issued' = id
        /\ pending' = generate_challenge(pending, config.quiz, id, draws, now, mono)
        /\ bypass_until' = activate_bypass(duration_minutes, now)
        /\ last' = Response("RequestBypass", "QuizChallenge", "")
        /\ UNCHANGED <<config, disk, schedule, blocker, stats, now, mono, task>>

\* duration_minutes is logged and dropped; draws are the rng's outcomes
RequestBypass(duration_minutes, draws) ==
    LET id == issued + 1
    IN  /\ Len(draws) = config.quiz.num_questions
        /\ \A i \in 1..Len(draws) : QuestionDraws(config.quiz, draws[i])
        /\ issued' = id
        /\ pending' = generate_challenge(pending, config.quiz, id, draws, now, mono)
        /\ last' = Response("RequestBypass", "QuizChallenge", "")
        /\ UNCHANGED <<config, disk, schedule, blocker, bypass_until, stats,
                       now, mono, task>>

\* RequestBypass in a build with overflow checks, for draws whose arithmetic
\* leaves the i32 range: generate_question panics after the sweep, the
\* handler's task ends and no response is written
RequestBypassPanics(draws) ==
    /\ Len(draws) = config.quiz.num_questions
    /\ \A i \in 1..Len(draws) : QuestionDraws(config.quiz, draws[i])
    /\ \E i \in 1..Len(draws) : question_overflows(draws[i])
    /\ pending' = cleanup_expired(pending, now)
    /\ UNCHANGED <<config, disk, schedule, blocker, issued, bypass_until, stats,
                   now, mono, task, last>>

SubmitQuizAnswers(challenge_id, answers) ==
    LET verdict == validate_answers(pending, config.quiz, challenge_id, answers,
                                    now, mono)
    IN  /\ pending' = remove_pending(pending, challenge_id)
        /\ IF verdict = "Ok"
           THEN /\ bypass_until' = activate_bypass(BypassMinutes, now)
                /\ last' = Response("SubmitQuizAnswers", "Success", "")
           ELSE /\ bypass_until' = bypass_until
                /\ last' = Response("SubmitQuizAnswers", "Error", quiz_error_code(verdict))
        /\ UNCHANGED <<config, disk, schedule, blocker, issued, stats, now,
                       mono, task>>

\* CancelBypass forgetting the pending challenges as well
CancelBypass_drops_pending ==
    /\ bypass_until' = cancel_bypass
    /\ pending' = <<>>
    /\ last' = Response("CancelBypass", "Success", "")
    /\ UNCHANGED <<config, disk, schedule, blocker, issued, stats,
                   now, mono, task>>

CancelBypass ==
    /\ bypass_until' = cancel_bypass
    /\ last' = Response("CancelBypass", "Success", "")
    /\ UNCHANGED <<config, disk, schedule, blocker, pending, issued, stats,
                   now, mono, task>>

-----------------------------------------------------------------------------
(* IPC connection: IpcServer::handle_connection, one task per accepted       *)
(* connection.  A line is a sequence of tokens: spaces, the words of a       *)
(* command, the characters of its payload, or a byte that is not UTF-8.      *)

\* everything but the connection
daemon == <<config, disk, schedule, blocker, pending, issued, bypass_until,
            stats, now, mono, task, last>>

NoConnection == [pc |-> "none", input |-> <<>>, read |-> <<>>,
                 response |-> <<>>, output |-> <<>>]

BadByte == "0xFF"

\* read_line: Err on a line that is not UTF-8
IsUtf8(line) == \A i \in 1..Len(line) : line[i] # BadByte

\* serde_json::from_str::<Command>: <<>> is Err
parse_command(trimmed) ==
    IF trimmed \in {<<"Ping">>, <<"GetBlocklist">>, <<"CancelBypass">>}
    THEN <<[type |-> trimmed[1], domain |-> <<>>]>>
    ELSE IF Len(trimmed) >= 2 /\ trimmed[1] = "AddDomain"
              /\ \A i \in 2..Len(trimmed) : trimmed[i] \in {"a", "b", "."}
    THEN <<[type |-> "AddDomain", domain |-> Tail(trimmed)]>>
    ELSE <<>>

InvalidCommand == Response("", "Error", "invalid_command")

\* one turn of the loop with a blank line handed to the parser
line_outcome_blank_parsed(line) ==
    IF ~IsUtf8(line) THEN "error"
    ELSE IF parse_command(Trim(line)) = <<>> THEN "invalid"
    ELSE "command"

\* one turn of the loop with a parse failure ending the connection
line_outcome_invalid_closes(line) ==
    IF ~IsUtf8(line) THEN "error"
    ELSE IF Trim(line) = <<>> THEN "skip"
    ELSE IF parse_command(Trim(line)) = <<>> THEN "error"
    ELSE "command"

\* one turn of the loop of handle_connection, as far as the line decides it
line_outcome(line) ==
    IF ~IsUtf8(line) THEN "error"
    ELSE IF Trim(line) = <<>> THEN "skip"
    ELSE IF parse_command(Trim(line)) = <<>> THEN "invalid"
    ELSE "command"

\* handle_command for the commands a line can spell
RunCommand(cmd, write_ok) ==
    \/ cmd.type = "Ping" /\ Ping
    \/ cmd.type = "GetBlocklist" /\ GetBlocklist
    \/ cmd.type = "CancelBypass" /\ CancelBypass
    \/ cmd.type = "AddDomain" /\ AddDomain(cmd.domain, write_ok)

\* listener.accept: a client connects and will send lines
Accept(lines) ==
    /\ conn.pc = "none"
    /\ conn' = [NoConnection EXCEPT !.pc = "reading", !.input = lines]
    /\ UNCHANGED <<ui, lock, thread>>
    /\ UNCHANGED daemon

\* handle_connection: read_line, trim, parse, handle_command
ConnRead(write_ok) ==
    /\ conn.pc = "reading"
    /\ UNCHANGED <<ui, lock, thread>>
    /\ IF conn.input = <<>>
       THEN /\ conn' = [conn EXCEPT !.pc = "closed"]
            /\ UNCHANGED daemon
       ELSE LET line == Head(conn.input)
                taken == [conn EXCEPT !.input = Tail(@), !.read = Append(@, line)]
                outcome == line_outcome(line)
            IN  IF outcome = "error"
                THEN /\ conn' = [taken EXCEPT !.pc = "closed"]
                     /\ UNCHANGED daemon
                ELSE IF outcome = "skip"
                THEN /\ conn' = taken
                     /\ UNCHANGED daemon
                ELSE IF outcome = "invalid"
                THEN /\ conn' = [taken EXCEPT !.pc = "writing",
                                              !.response = <<InvalidCommand>>]
                     /\ UNCHANGED daemon
                ELSE /\ RunCommand(parse_command(Trim(line))[1], write_ok)
                     /\ conn' = [taken EXCEPT !.pc = "writing",
                                              !.response = <<last'>>]

\* handle_connection: the response line written and flushed; an error ends
\* the connection
ConnWrite(sent) ==
    /\ conn.pc = "writing"
    /\ UNCHANGED <<ui, lock, thread>>
    /\ IF sent
       THEN conn' = [conn EXCEPT !.pc = "reading", !.response = <<>>,
                                 !.output = Append(@, conn.response[1])]
       ELSE conn' = [conn EXCEPT !.pc = "closed", !.response = <<>>]
    /\ UNCHANGED daemon

-----------------------------------------------------------------------------
(* DNS query task: DnsServer::run spawns one per datagram; handle_query takes *)
(* the read guard for the decision, then the write guard for the counter,     *)
(* then answers.                                                              *)

FreeTask == [pc |-> "free", query |-> <<>>, should_block |-> FALSE, response |-> <<>>]

\* a datagram arrives on a free slot: parse it and pick the first question;
\* an unparsable or question-less datagram ends the task with no response
DnsRecv(t, parses, msg) ==
    /\ task[t].pc = "free"
    /\ IF parses /\ msg.queries # <<>>
       THEN task' = [task EXCEPT ![t] = [FreeTask EXCEPT !.pc = "parsed",
                                                        !.query = <<msg>>]]
       ELSE task' = [task EXCEPT ![t] = FreeTask]
    /\ UNCHANGED <<config, disk, schedule, blocker, pending, issued,
                   bypass_until, stats, now, mono, last, callers>>

\* the decision taken without looking at the bypass deadline
DnsDecide_bypass_unseen(t) ==
    /\ task[t].pc = "parsed"
    /\ task' = [task EXCEPT
                   ![t].pc = "decided",
                   ![t].should_block =
                       query_decision(config, schedule, <<>>, blocker, now,
                                      task[t].query[1].queries[1].name)]
    /\ UNCHANGED <<config, disk, schedule, blocker, pending, issued,
                   bypass_until, stats, now, mono, last, callers>>

\* handle_query: the decision under the read guard
DnsDecide(t) ==
    /\ task[t].pc = "parsed"
    /\ task' = [task EXCEPT
                   ![t].pc = "decided",
                   ![t].should_block =
                       query_decision(config, schedule, bypass_until, blocker, now,
                                      task[t].query[1].queries[1].name)]
    /\ UNCHANGED <<config, disk, schedule, blocker, pending, issued,
                   bypass_until, stats, now, mono, last, callers>>

\* the counter update counting blocked queries only
DnsCount_blocked_only(t) ==
    /\ task[t].pc = "decided"
    /\ stats' = IF task[t].should_block
                THEN [stats EXCEPT !.queries_blocked = @ + 1]
                ELSE stats
    /\ task' = [task EXCEPT ![t].pc = "counted"]
    /\ UNCHANGED <<config, disk, schedule, blocker, pending, issued,
                   bypass_until, now, mono, last, callers>>

\* the counter update dropping the bypass deadline while it holds the write guard
DnsCount_clears_bypass(t) ==
    /\ task[t].pc = "decided"
    /\ stats' = IF task[t].should_block
                THEN [stats EXCEPT !.queries_blocked = @ + 1]
                ELSE [stats EXCEPT !.queries_forwarded = @ + 1]
    /\ bypass_until' = <<>>
    /\ task' = [task EXCEPT ![t].pc = "counted"]
    /\ UNCHANGED <<config, disk, schedule, blocker, pending, issued,
                   now, mono, last, callers>>

\* handle_query: the counter update under the write guard
DnsCount(t) ==
    /\ task[t].pc = "decided"
    /\ stats' = IF task[t].should_block
                THEN [stats EXCEPT !.queries_blocked = @ + 1]
                ELSE [stats EXCEPT !.queries_forwarded = @ + 1]
    /\ task' = [task EXCEPT ![t].pc = "counted"]
    /\ UNCHANGED <<config, disk, schedule, blocker, pending, issued,
                   bypass_until, now, mono, last, callers>>

\* handle_query: build the response (synthetic, or from the upstream lookup)
\* and send it; the slot is free again and keeps the datagram it sent
DnsRespond(t, lookup) ==
    /\ task[t].pc = "counted"
    /\ LET query == task[t].query[1]
           name == query.queries[1].name
           record_type == query.queries[1].query_type
       IN  task' = [task EXCEPT
                       ![t].pc = "free",
                       ![t].response =
                           IF task[t].should_block
                           THEN <<create_blocked_response(query, name, record_type)>>
                           ELSE <<forwarded_response(query, name, record_type, lookup)>>]
    /\ UNCHANGED <<config, disk, schedule, blocker, pending, issued,
                   bypass_until, stats, now, mono, last, callers>>

\* handle_query: serializing or sending the response fails; the task ends with
\* the error and the client gets nothing
DnsSendFailed(t) ==
    /\ task[t].pc = "counted"
    /\ task' = [task EXCEPT ![t].pc = "free", ![t].response = <<>>]
    /\ UNCHANGED <<config, disk, schedule, blocker, pending, issued,
                   bypass_until, stats, now, mono, last, callers>>

-----------------------------------------------------------------------------
(* Clocks *)

\* time passes: both clocks advance
Tick(d) ==
    /\ now' = now + d
    /\ mono' = mono + d
    /\ UNCHANGED <<config, disk, schedule, blocker, pending, issued,
                   bypass_until, stats, task, last, callers>>

\* the wall clock is set (NTP, the user); the monotonic clock is not affected
ClockSet(t) ==
    /\ t # now
    /\ now' = t
    /\ UNCHANGED <<config, disk, schedule, blocker, pending, issued,
                   bypass_until, stats, mono, task, last, callers>>

-----------------------------------------------------------------------------
(* Inputs and bounds *)

\* domain strings
D_ab      == <<"a", ".", "b">>
D_ABdot   == <<"A", ".", "B", ".">>
D_empty   == <<>>
D_skew    == <<"a", ".", " ", ".">>

\* query names, as Name::to_string() gives them
Q_ab      == <<"a", ".", "b", ".">>
Q_wAB     == <<"W", ".", "A", ".", "B", ".">>
Q_bab     == <<"b", "a", ".", "b", ".">>
Q_abw     == <<"a", ".", "b", ".", "w", ".">>
Q_w       == <<"w", ".">>

\* the characters of the strings handed to the matcher, and their lengths
Alphabet == {"a", "A", ".", " "}
MaxLen == 3
StringsUpTo(n) == UNION {[1..k -> Alphabet] : k \in 0..n}

MaxDomains == 2
MaxChallenges == 1
MaxQuizChallenges == 2
MaxQueries == 1
MaxSeconds == 2

NoSchedule == [enabled |-> FALSE, rules |-> <<>>]
EmptySchedule == [enabled |-> TRUE, rules |-> <<>>]
\* 1970-01-01 was a Thursday
EarlyRule == [name |-> "Early", days |-> <<"thu">>,
              start_time |-> [hour |-> 0, minute |-> 0],
              end_time |-> [hour |-> 0, minute |-> 15]]
NightRule == [name |-> "Night", days |-> <<"mon", "thu">>,
              start_time |-> [hour |-> 0, minute |-> 15],
              end_time |-> [hour |-> 0, minute |-> 0]]
EarlySchedule == [enabled |-> TRUE, rules |-> <<EarlyRule>>]
NightSchedule == [enabled |-> TRUE, rules |-> <<NightRule>>]

\* quiz settings: one question over the operand 2; a challenge lasts one
\* second and must not be answered within its first second
TimedQuiz ==
    [num_questions |-> 1, min_operand |-> 2, max_operand |-> 2,
     timeout_seconds |-> 1, min_solve_seconds |-> 1]
\* the same with no minimum solve time, as the engine's tests set it
UntimedQuiz == [TimedQuiz EXCEPT !.min_solve_seconds = 0]

Configs(enableds, blocklists, schedules, quiz) ==
    {[blocking |-> [enabled |-> e, domains |-> ds], schedule |-> sc, quiz |-> quiz] :
        e \in enableds, ds \in blocklists, sc \in schedules}

DrawInputs == {<<0, 2, 2>>, <<1, 2, 2>>, <<2, 2, 12>>}
AnswerValues == {0, 4, 24}
AnswerInputs == UNION {[1..n -> AnswerValues] : n \in 0..2}
Queries(ids, rds, names, types) ==
    {[id |-> i, recursion_desired |-> rd,
      queries |-> <<[name |-> n, query_type |-> ty]>>] :
        i \in ids, rd \in rds, n \in names, ty \in types}
NoQuestion == [id |-> 7, recursion_desired |-> TRUE, queries |-> <<>>]
TwoQuestions ==
    [id |-> 8, recursion_desired |-> FALSE,
     queries |-> <<[name |-> Q_wAB, query_type |-> "AAAA"],
                   [name |-> Q_bab, query_type |-> "A"]>>]
LookupFailed == <<>>
LookupFound == <<<<"93.184.216.34">>>>
BypassSeconds == BypassMinutes * 60
Horizon == BypassSeconds + MaxSeconds

-----------------------------------------------------------------------------
(* The UI's set_schedule_enabled: app/src/commands.rs.  Each command of the *)
(* client goes over a connection of its own (IpcClient::send_command), so   *)
(* commands of other clients may run between its GetSchedule and its        *)
(* UpdateSchedule.                                                          *)

\* no call under way and none made yet
NoCall == [pc |-> "idle", enabled |-> FALSE, rules |-> <<>>, returned |-> ""]

\* set_schedule_enabled(enabled), first half: GetSchedule is sent and the
\* schedule in the response kept
UiGetSchedule(enabled) ==
    /\ ui.pc = "idle"
    /\ GetSchedule
    /\ ui' = [pc |-> "fetched", enabled |-> enabled,
              rules |-> config.schedule.rules, returned |-> ""]
    /\ UNCHANGED <<conn, lock, thread>>

\* set_schedule_enabled, second half: UpdateSchedule is sent with the flag
\* asked for and the rules fetched; Success returns true, an error returns
\* its message
UiUpdateSchedule(write_ok) ==
    /\ ui.pc = "fetched"
    /\ UpdateSchedule([enabled |-> ui.enabled, rules |-> ui.rules], write_ok)
    /\ ui' = [NoCall EXCEPT !.returned = IF last'.type = "Success" THEN "true"
                                                                  ELSE "error"]
    /\ UNCHANGED <<conn, lock, thread>>

-----------------------------------------------------------------------------
(* The locks: tokio RwLock<AppState> around the whole state, and the        *)
(* RwLock<Config> inside ConfigManager.  Waiters are served first come,     *)
(* first served.                                                            *)

\* both locks free, nobody waiting
FreeLocks ==
    [outer |-> [readers |-> {}, writer |-> {}, queue |-> <<>>],
     inner |-> [writer |-> {}]]

\* Config::default(), as far as the model's Config goes
DefaultConfig ==
    [blocking |-> [enabled |-> TRUE,
                   domains |-> << <<"f", "a", "c", "e", "b", "o", "o", "k", ".", "c", "o", "m">>,
                                  <<"t", "w", "i", "t", "t", "e", "r", ".", "c", "o", "m">>,
                                  <<"i", "n", "s", "t", "a", "g", "r", "a", "m", ".", "c", "o", "m">>,
                                  <<"r", "e", "d", "d", "i", "t", ".", "c", "o", "m">>,
                                  <<"t", "i", "k", "t", "o", "k", ".", "c", "o", "m">> >>],
     schedule |-> [enabled |-> FALSE, rules |-> <<>>],
     quiz     |-> [num_questions |-> 3, min_operand |-> 10, max_operand |-> 99,
                   timeout_seconds |-> 60, min_solve_seconds |-> 3]]

\* ConfigManager::get: try_read on the config lock, the default on failure
config_get == IF lock.inner.writer # {} THEN DefaultConfig ELSE config

\* a task just spawned for cmd: a DNS query or one IPC command
NewThread(cmd) ==
    [cmd |-> cmd, pc |-> "start", should_block |-> FALSE, got |-> <<>>,
     response |-> <<>>]

ReadCommands   == {"GetStatus", "GetBlocklist", "GetSchedule"}
UpdateCommands == {"AddDomain", "RemoveDomain", "UpdateSchedule"}

\* every command taking the AppState lock shared
lock_mode_update_shared(cmd) ==
    IF cmd.type \in ReadCommands \cup UpdateCommands THEN "read" ELSE "write"

\* the way handle_command takes the AppState lock for cmd: state.read() or
\* state.write()
lock_mode(cmd) == IF cmd.type \in ReadCommands THEN "read" ELSE "write"

\* the way the task takes the AppState lock next: a query task reads for the
\* decision and writes for the counter
Wanted(t) ==
    IF t.cmd.type = "Query"
    THEN IF t.pc = "start" THEN "read" ELSE "write"
    ELSE lock_mode(t.cmd)

\* the guard of task h on the AppState lock is dropped
outer_release(h) ==
    [lock EXCEPT !.outer.readers = @ \ {h}, !.outer.writer = @ \ {h}]

\* the handler run by handle_command for cmd
RunLocked(cmd) ==
    \/ cmd.type = "GetStatus" /\ GetStatus
    \/ cmd.type = "GetBlocklist" /\ GetBlocklist
    \/ cmd.type = "GetSchedule" /\ GetSchedule
    \/ cmd.type = "AddDomain" /\ AddDomain(cmd.domain, cmd.write_ok)
    \/ cmd.type = "RemoveDomain" /\ RemoveDomain(cmd.domain, cmd.write_ok)
    \/ cmd.type = "UpdateSchedule" /\ UpdateSchedule(cmd.schedule, cmd.write_ok)
    \/ cmd.type = "RequestBypass" /\ RequestBypass(cmd.duration_minutes, cmd.draws)
    \/ cmd.type = "SubmitQuizAnswers" /\ SubmitQuizAnswers(cmd.challenge_id, cmd.answers)
    \/ cmd.type = "CancelBypass" /\ CancelBypass

\* tokio::spawn: a task for a datagram received or for a command read
Spawn(cmd, limit) ==
    /\ Len(thread) < limit
    /\ thread' = Append(thread, NewThread(cmd))
    /\ UNCHANGED <<daemon, conn, ui, lock>>

\* state.read().await, state.write().await: the task joins the waiters
LockRequest(h) ==
    /\ lock' = [lock EXCEPT !.outer.queue =
                   Append(@, [thread |-> h, mode |-> Wanted(thread[h])])]
    /\ thread' = [thread EXCEPT ![h].pc = "waiting"]
    /\ UNCHANGED daemon

\* the first waiter gets the AppState lock: a reader when nobody writes, a
\* writer when nobody holds the lock
LockGrant ==
    /\ lock.outer.queue # <<>>
    /\ LET first == Head(lock.outer.queue)
       IN  /\ lock.outer.writer = {}
           /\ first.mode = "write" => lock.outer.readers = {}
           /\ lock' = [lock EXCEPT
                          !.outer.queue = Tail(@),
                          !.outer.readers = IF first.mode = "read"
                                            THEN @ \cup {first.thread} ELSE @,
                          !.outer.writer = IF first.mode = "write"
                                           THEN {first.thread} ELSE @]
           /\ thread' = [thread EXCEPT ![first.thread].pc = "holding"]
    /\ UNCHANGED <<daemon, conn, ui>>

\* the decision of handle_query with the read guard kept for the rest of the task
QueryDecide_guard_kept(h) ==
    /\ thread' = [thread EXCEPT
                     ![h].pc = "decided",
                     ![h].got = <<config_get>>,
                     ![h].should_block =
                         query_decision(config_get, schedule, bypass_until, blocker,
                                        now, thread[h].cmd.name)]
    /\ lock' = lock
    /\ UNCHANGED daemon

\* handle_query under the read guard: the decision, with the config that
\* get() returns; the guard is dropped at the end of the block
QueryDecide(h) ==
    /\ thread' = [thread EXCEPT
                     ![h].pc = "decided",
                     ![h].got = <<config_get>>,
                     ![h].should_block =
                         query_decision(config_get, schedule, bypass_until, blocker,
                                        now, thread[h].cmd.name)]
    /\ lock' = outer_release(h)
    /\ UNCHANGED daemon

\* handle_query under the write guard: the counter
QueryCount(h) ==
    /\ stats' = IF thread[h].should_block
                THEN [stats EXCEPT !.queries_blocked = @ + 1]
                ELSE [stats EXCEPT !.queries_forwarded = @ + 1]
    /\ thread' = [thread EXCEPT ![h].pc = "done"]
    /\ lock' = outer_release(h)
    /\ UNCHANGED <<config, disk, schedule, blocker, pending, issued,
                   bypass_until, now, mono, task, last>>

\* a handler that reads: get() under the read guard, the response, the guard
\* dropped
LockedRead(h) ==
    /\ RunLocked(thread[h].cmd)
    /\ thread' = [thread EXCEPT ![h].pc = "done",
                                ![h].got = <<config_get>>,
                                ![h].response = <<last'>>]
    /\ lock' = outer_release(h)

\* a handler that writes and leaves the config alone: its effect, the
\* response, the guard dropped
LockedWrite(h) ==
    /\ RunLocked(thread[h].cmd)
    /\ thread' = [thread EXCEPT ![h].pc = "done", ![h].response = <<last'>>]
    /\ lock' = outer_release(h)

\* ConfigManager::update: self.config.write().await, under the write guard
\* of the handler
UpdateAcquire(h) ==
    /\ lock.inner.writer = {}
    /\ lock' = [lock EXCEPT !.inner.writer = {h}]
    /\ thread' = [thread EXCEPT ![h].pc = "updating"]
    /\ UNCHANGED daemon

\* ConfigManager::update: the updater and save_config, then the config lock
\* is dropped; the handler's own effects on the state it alone can touch
\* are taken here as well
UpdateApply(h) ==
    /\ RunLocked(thread[h].cmd)
    /\ lock' = [lock EXCEPT !.inner.writer = @ \ {h}]
    /\ thread' = [thread EXCEPT ![h].pc = "updated", ![h].response = <<last'>>]

\* the rest of a handler that updates the config: blocked_domains() after a
\* Success of AddDomain or RemoveDomain, and the guard dropped
UpdateFinish(h) ==
    /\ thread' = [thread EXCEPT
                     ![h].pc = "done",
                     ![h].got = IF /\ thread[h].cmd.type \in {"AddDomain", "RemoveDomain"}
                                   /\ thread[h].response[1].type = "Success"
                                THEN <<config_get>> ELSE @]
    /\ lock' = outer_release(h)
    /\ UNCHANGED daemon

\* the next step of task h
Step(h) ==
    /\ h \in DOMAIN thread
    /\ UNCHANGED <<conn, ui>>
    /\ LET t == thread[h]
       IN  CASE t.pc \in {"start", "decided"} -> LockRequest(h)
             [] t.pc = "holding" /\ t.cmd.type = "Query" /\ t.got = <<>> -> QueryDecide(h)
             [] t.pc = "holding" /\ t.cmd.type = "Query" /\ t.got # <<>> -> QueryCount(h)
             [] t.pc = "holding" /\ t.cmd.type \in ReadCommands -> LockedRead(h)
             [] t.pc = "holding" /\ t.cmd.type \in UpdateCommands -> UpdateAcquire(h)
             [] t.pc = "holding" /\ t.cmd.type \notin ReadCommands \cup UpdateCommands
                                 /\ t.cmd.type # "Query" -> LockedWrite(h)
             [] t.pc = "updating" -> UpdateApply(h)
             [] t.pc = "updated" -> UpdateFinish(h)
             [] OTHER -> FALSE

-----------------------------------------------------------------------------
(* The daemon *)

\* AppState::new over the loaded config
InitState(cfg) ==
    /\ config = cfg
    /\ disk = <<cfg>>
    /\ schedule = cfg.schedule
    /\ blocker = update_domains(cfg.blocking.domains)
    /\ pending = <<>>
    /\ issued = 0
    /\ bypass_until = <<>>
    /\ stats = [queries_blocked |-> 0, queries_forwarded |-> 0]
    /\ now = 0
    /\ conn = NoConnection
    /\ ui = NoCall
    /\ lock = FreeLocks
    /\ thread = <<>>
    /\ mono = 0
    /\ last = Response("", "", "")

InFlight == Cardinality({t \in DOMAIN task : task[t].pc # "free"})

\* the DNS frontend serving datagrams drawn from msgs, limit of them in all
QueryNext(msgs, lookups, limit) ==
    \/ \E t \in DOMAIN task, parses \in BOOLEAN, msg \in msgs :
          /\ stats.queries_blocked + stats.queries_forwarded + InFlight < limit
          /\ DnsRecv(t, parses, msg)
    \/ \E t \in DOMAIN task : DnsDecide(t)
    \/ \E t \in DOMAIN task : DnsCount(t)
    \/ \E t \in DOMAIN task, lookup \in lookups : DnsRespond(t, lookup)

DnsNext(msgs, lookups) == QueryNext(msgs, lookups, MaxQueries)

\* the blocklist commands
ListNext(domains) ==
    \/ GetBlocklist /\ UNCHANGED callers
    \/ \E d \in domains, ok \in BOOLEAN :
          /\ Len(config.blocking.domains) < MaxDomains
          /\ AddDomain(d, ok)
          /\ UNCHANGED callers
    \/ \E d \in domains, ok \in BOOLEAN : RemoveDomain(d, ok) /\ UNCHANGED callers

\* the schedule commands
ScheduleNext(schedules) ==
    \/ GetSchedule /\ UNCHANGED callers
    \/ \E s \in schedules, ok \in BOOLEAN : UpdateSchedule(s, ok) /\ UNCHANGED callers

\* the bypass commands
BypassNext(draws, answers, limit) ==
    \/ \E m \in {10, 15}, ds \in [1..config.quiz.num_questions -> draws] :
          /\ issued < limit
          /\ RequestBypass(m, ds)
          /\ UNCHANGED callers
    \/ \E c \in 0..issued, ans \in answers :
          SubmitQuizAnswers(c, ans) /\ UNCHANGED callers
    \/ CancelBypass /\ UNCHANGED callers

\* time passing in steps drawn from steps; the clocks are followed for
\* MaxSeconds seconds from the start and from the bypass length
ClockNext(steps) ==
    \E d \in steps :
        /\ now + d <= Horizon
        /\ mono + d <= Horizon
        /\ (now + d) % BypassSeconds <= MaxSeconds
        /\ (mono + d) % BypassSeconds <= MaxSeconds
        /\ Tick(d)

\* the wall clock set to a time drawn from times
ClockSetNext(times) == \E t \in times : ClockSet(t)

(* Spec: every IPC command, at one instant *)

Init ==
    /\ \E cfg \in Configs(BOOLEAN, {<<>>, <<D_ABdot>>}, {NoSchedule}, UntimedQuiz) :
          InitState(cfg)
    /\ task = <<>>

Next ==
    \/ Ping /\ UNCHANGED callers
    \/ GetStatus /\ UNCHANGED callers
    \/ ListNext({D_ab, D_empty})
    \/ ScheduleNext({NoSchedule, EmptySchedule})
    \/ BypassNext({<<0, 2, 2>>}, {<<>>, <<4>>, <<0>>}, MaxChallenges)

Spec == Init /\ [][Next]_vars

(* BypassSpec: the quiz and the bypass window as time passes, with DNS *)
(* queries for a blocked name                                          *)

BypassInit ==
    /\ \E cfg \in Configs(BOOLEAN, {<<D_ab>>},
                          {NoSchedule, EmptySchedule, EarlySchedule, NightSchedule},
                          TimedQuiz) :
          InitState(cfg)
    /\ task = [t \in {1} |-> FreeTask]

BypassSpecNext ==
    \/ GetStatus /\ UNCHANGED callers
    \/ BypassNext(DrawInputs, AnswerInputs, MaxChallenges)
    \/ ClockNext({1, BypassSeconds})
    \/ DnsNext(Queries({7}, {TRUE}, {Q_wAB}, {"A"}), {LookupFound})

BypassSpec == BypassInit /\ [][BypassSpecNext]_vars

(* QuizSpec: the quiz engine with the wall clock and the monotonic clock *)
(* moving apart                                                          *)

QuizInit ==
    /\ \E cfg \in Configs({TRUE}, {<<D_ab>>}, {NoSchedule}, TimedQuiz) : InitState(cfg)
    /\ task = <<>>

QuizSpecNext ==
    \/ BypassNext(DrawInputs, AnswerInputs, MaxQuizChallenges)
    \/ ClockNext({1})
    \/ ClockSetNext(0..MaxSeconds)

QuizSpec == QuizInit /\ [][QuizSpecNext]_vars

(* ChallengeSpec: challenges of one question and of two, issued and *)
(* answered as both clocks move                                      *)

\* two questions over the operand 2; a challenge lasts two seconds
PairQuiz ==
    [num_questions |-> 2, min_operand |-> 2, max_operand |-> 2,
     timeout_seconds |-> 2, min_solve_seconds |-> 1]

ChallengeInit ==
    /\ \E quiz \in {TimedQuiz, PairQuiz} :
          \E cfg \in Configs({TRUE}, {<<D_ab>>}, {NoSchedule}, quiz) : InitState(cfg)
    /\ task = <<>>

ChallengeSpecNext ==
    \/ BypassNext(DrawInputs, AnswerInputs, MaxChallenges)
    \/ ClockNext({1})
    \/ ClockSetNext(0..MaxSeconds)

ChallengeSpec == ChallengeInit /\ [][ChallengeSpecNext]_vars

(* QuestionSpec: questions over the default operands, over operands near *)
(* the ends of the i32 range and over operands of both signs            *)

DefaultQuiz == [TimedQuiz EXCEPT !.min_operand = 10, !.max_operand = 99]
WideQuiz    == [TimedQuiz EXCEPT !.min_operand = 1073741824, !.max_operand = MaxI32]
SignedQuiz  == [TimedQuiz EXCEPT !.min_operand = -MaxI32, !.max_operand = 12]

OperandInputs == {-MaxI32, -1, 2, 10, 12, 13, 99, 100, 46340, 46341, 1073741824, MaxI32}
QuestionInputs == {<<op, a, b>> : op \in 0..2, a \in OperandInputs, b \in OperandInputs}

QuestionInit ==
    /\ \E quiz \in {TimedQuiz, DefaultQuiz, WideQuiz, SignedQuiz} :
          \E cfg \in Configs({TRUE}, {<<D_ab>>}, {NoSchedule}, quiz) : InitState(cfg)
    /\ task = <<>>

QuestionSpecNext ==
    \/ \E ds \in [1..config.quiz.num_questions -> QuestionInputs] :
          /\ issued < MaxChallenges
          /\ RequestBypass(BypassMinutes, ds)
          /\ UNCHANGED callers
    \/ \E ds \in [1..config.quiz.num_questions -> QuestionInputs] :
          RequestBypassPanics(ds) /\ UNCHANGED callers
    \/ \E c \in 0..issued, ans \in AnswerInputs :
          SubmitQuizAnswers(c, ans) /\ UNCHANGED callers
    \/ ClockNext({1})

QuestionSpec == QuestionInit /\ [][QuestionSpecNext]_vars

(* UiSpec: the UI switching the schedule on and off while another client *)
(* replaces the schedule                                                 *)

UiInit ==
    /\ \E cfg \in Configs({TRUE}, {<<D_ab>>}, {NoSchedule, EarlySchedule}, UntimedQuiz) :
          InitState(cfg)
    /\ task = <<>>

UiSpecNext ==
    \/ \E e \in BOOLEAN : UiGetSchedule(e)
    \/ \E ok \in BOOLEAN : UiUpdateSchedule(ok)
    \/ \E s \in {NoSchedule, EarlySchedule, NightSchedule}, ok \in BOOLEAN :
          UpdateSchedule(s, ok) /\ UNCHANGED callers
    \/ GetStatus /\ UNCHANGED callers

UiSpec == UiInit /\ [][UiSpecNext]_vars

(* LockSpec: query tasks and handlers that read and update the config, *)
(* followed lock by lock under a fair scheduler                        *)

MaxThreads == 3

LockCommands ==
    {[type |-> "Query", name |-> Q_wAB],
     [type |-> "GetBlocklist"],
     [type |-> "CancelBypass"]}
    \cup {[type |-> "AddDomain", domain |-> D_ab, write_ok |-> ok] : ok \in BOOLEAN}

LockInit ==
    /\ \E cfg \in Configs({TRUE}, {<<>>, <<D_ab>>}, {NoSchedule}, UntimedQuiz) :
          InitState(cfg)
    /\ task = <<>>

LockSpecNext ==
    \/ \E cmd \in LockCommands : Spawn(cmd, MaxThreads)
    \/ \E h \in 1..MaxThreads : Step(h)
    \/ LockGrant

\* the runtime polls every task that can run, and the lock serves its waiters
LockFairness ==
    /\ WF_vars(LockGrant)
    /\ \A h \in 1..MaxThreads : WF_vars(Step(h))

LockSpec == LockInit /\ [][LockSpecNext]_vars /\ LockFairness

(* FairSpec: the same tasks under a fair lock and a fair runtime, every *)
(* task that can run runs and the first waiter gets the lock            *)

FairCommands ==
    {[type |-> "Query", name |-> Q_wAB],
     [type |-> "GetBlocklist"],
     [type |-> "CancelBypass"]}
    \cup {[type |-> "RemoveDomain", domain |-> D_ab, write_ok |-> ok] :
             ok \in BOOLEAN}

FairInit ==
    /\ \E cfg \in Configs({TRUE}, {<<D_ab>>}, {NoSchedule}, UntimedQuiz) :
          InitState(cfg)
    /\ task = <<>>

FairSpecNext ==
    \/ \E cmd \in FairCommands : Spawn(cmd, MaxThreads)
    \/ \E h \in 1..MaxThreads : Step(h)
    \/ LockGrant

FairSpec == FairInit /\ [][FairSpecNext]_vars /\ LockFairness

(* RaceSpec: connections asking for a challenge and submitting answers *)
(* for the first challenge, right and wrong, at the same time          *)

RaceCommands ==
    {[type |-> "RequestBypass", duration_minutes |-> BypassMinutes,
      draws |-> <<<<0, 2, 2>>>>]}
    \cup {[type |-> "SubmitQuizAnswers", challenge_id |-> 1, answers |-> ans] :
             ans \in {<<4>>, <<0>>}}

RaceInit ==
    /\ \E cfg \in Configs({TRUE}, {<<D_ab>>}, {NoSchedule}, UntimedQuiz) :
          InitState(cfg)
    /\ task = <<>>

RaceSpecNext ==
    \/ \E cmd \in RaceCommands : Spawn(cmd, MaxThreads)
    \/ \E h \in 1..MaxThreads : Step(h)
    \/ LockGrant

RaceSpec == RaceInit /\ [][RaceSpecNext]_vars

(* ListSpec: the blocklist commands, with writes that fail, and DNS queries *)

ListDomains == {D_ab, D_empty, D_skew}

ListInit ==
    /\ \E cfg \in Configs(BOOLEAN, {<<>>, <<D_ABdot>>}, {NoSchedule}, UntimedQuiz) :
          InitState(cfg)
    /\ task = [t \in {1} |-> FreeTask]

ListSpecNext ==
    \/ ListNext(ListDomains)
    \/ DnsNext(Queries({7}, {TRUE}, {Q_ab, Q_wAB, Q_bab, Q_w, <<".">>}, {"A"}),
               {LookupFound})

ListSpec == ListInit /\ [][ListSpecNext]_vars

(* MatchSpec: the matcher built from any short blocklist, asked by DNS *)
(* queries                                                             *)

MatchInit ==
    /\ \E cfg \in Configs({TRUE},
                          {<<>>, <<D_ab>>}
                             \cup {<<b>> : b \in StringsUpTo(MaxLen)}
                             \cup {<<b, c>> : b, c \in StringsUpTo(MaxLen - 2)},
                          {NoSchedule}, UntimedQuiz) :
          InitState(cfg)
    /\ task = [t \in {1} |-> FreeTask]

MatchSpecNext ==
    \/ GetBlocklist /\ UNCHANGED callers
    \/ DnsNext(Queries({7}, {TRUE}, {Q_wAB, Q_bab}, {"A"}), {LookupFound})

MatchSpec == MatchInit /\ [][MatchSpecNext]_vars

(* DnsSpec: DNS queries of every shape while the policy and the blocklist *)
(* change                                                                 *)

DnsInit ==
    /\ \E cfg \in Configs(BOOLEAN, {<<>>, <<D_ab>>}, {NoSchedule, EarlySchedule},
                          UntimedQuiz) :
          InitState(cfg)
    /\ task = [t \in {1} |-> FreeTask]

DnsSpecNext ==
    \/ DnsNext(Queries({7, 8}, BOOLEAN, {Q_wAB, Q_bab}, {"A", "AAAA", "MX"})
                   \cup {NoQuestion, TwoQuestions},
               {LookupFound, LookupFailed})
    \/ ListNext({D_ab})
    \/ BypassNext({<<0, 2, 2>>}, {<<4>>, <<0>>}, MaxChallenges)
    \/ ClockNext({BypassSeconds})

DnsSpec == DnsInit /\ [][DnsSpecNext]_vars

(* SharedSpec: one DNS query among every command that changes the shared *)
(* state                                                                 *)

SharedInit ==
    /\ \E cfg \in Configs({TRUE}, {<<>>, <<D_ab>>}, {NoSchedule, EmptySchedule},
                          UntimedQuiz) :
          InitState(cfg)
    /\ task = [t \in {1} |-> FreeTask]

SharedSpecNext ==
    \/ DnsNext(Queries({7}, {TRUE}, {Q_wAB}, {"A"}), {LookupFound})
    \/ ListNext({D_ab})
    \/ ScheduleNext({NoSchedule, EmptySchedule})
    \/ BypassNext({<<0, 2, 2>>}, {<<4>>, <<0>>}, MaxChallenges)

SharedSpec == SharedInit /\ [][SharedSpecNext]_vars

(* StoreSpec: the blocklist and schedule commands, with writes that fail, *)
(* on loaded files whose entries need not be normalized, with GetStatus  *)
(* and DNS queries                                                        *)

StoreDomains == {D_ab, D_ABdot, D_skew}

StoreInit ==
    /\ \E cfg \in Configs({TRUE}, {<<>>, <<D_ab>>, <<D_ABdot>>}, {NoSchedule},
                          UntimedQuiz) :
          InitState(cfg)
    /\ task = [t \in {1} |-> FreeTask]

StoreSpecNext ==
    \/ ListNext(StoreDomains)
    \/ ScheduleNext({NoSchedule, EmptySchedule})
    \/ GetStatus /\ UNCHANGED callers
    \/ DnsNext(Queries({7}, {TRUE}, {Q_wAB, Q_w}, {"A"}), {LookupFound})

StoreSpec == StoreInit /\ [][StoreSpecNext]_vars

(* CalendarSpec: schedules with same-day, overnight and empty windows, read *)
(* by GetStatus and by DNS queries as the wall clock is set around midnight *)
(* and around the ends of the windows                                       *)

LateRule  == [name |-> "Late", days |-> <<"thu">>,
              start_time |-> [hour |-> 23, minute |-> 45],
              end_time |-> [hour |-> 0, minute |-> 15]]
PointRule == [name |-> "Point", days |-> <<"thu", "fri">>,
              start_time |-> [hour |-> 0, minute |-> 15],
              end_time |-> [hour |-> 0, minute |-> 15]]
FridayRule == [name |-> "Friday", days |-> <<"fri">>,
               start_time |-> [hour |-> 0, minute |-> 0],
               end_time |-> [hour |-> 0, minute |-> 15]]

CalendarRules == {<<>>, <<EarlyRule>>, <<LateRule>>, <<PointRule>>, <<FridayRule>>,
                  <<EarlyRule, LateRule>>, <<PointRule, LateRule, EarlyRule>>}
CalendarSchedules == {[enabled |-> e, rules |-> rs] : e \in BOOLEAN, rs \in CalendarRules}

\* Thursday 00:00, 00:14:59, 00:15, 23:44:59, 23:45, 23:59:59 and Friday
\* 00:00, 00:14:59, 00:15, in seconds since the epoch
CalendarTimes == {0, 899, 900, 85499, 85500, 86399, 86400, 87299, 87300}

CalendarInit ==
    /\ \E cfg \in Configs(BOOLEAN, {<<D_ab>>}, CalendarSchedules, UntimedQuiz) :
          InitState(cfg)
    /\ task = [t \in {1} |-> FreeTask]

CalendarSpecNext ==
    \/ GetStatus /\ UNCHANGED callers
    \/ ClockSetNext(CalendarTimes)
    \/ DnsNext(Queries({7}, {TRUE}, {Q_wAB}, {"A"}), {LookupFound})

CalendarSpec == CalendarInit /\ [][CalendarSpecNext]_vars

(* TimeSpec: a config file whose one rule starts at any time of day the *)
(* file can spell, loaded and served by GetSchedule and GetStatus         *)

\* the five-character texts from "00:00" to "29:59"
ClockTexts ==
    {<<a, b, ":", c, d>> :
        a \in {"0", "1", "2"}, b \in {DigitChars[i] : i \in 1..10},
        c \in {"0", "1", "2", "3", "4", "5"}, d \in {DigitChars[i] : i \in 1..10}}

\* texts of other shapes
OddTexts == {<<"9", ":", "3", "0">>, <<"0", "9", "3", "0">>, <<"0", "9", ":", "6", "0">>,
             <<"0", "9", ":", "3", "0", ":", "0", "0">>, <<>>}

\* the rule of the file, with its start as the text spells it
TextRule(text) ==
    [name |-> "Text", days |-> <<"thu">>,
     start_time |-> parse_hm(text)[1],
     end_time |-> [hour |-> 0, minute |-> 0]]

\* ConfigManager::load fails on a text that does not parse, and the daemon
\* does not start
TimeInit ==
    /\ \E text \in ClockTexts \cup OddTexts :
          /\ parse_hm(text) # <<>>
          /\ \E cfg \in Configs({TRUE}, {<<D_ab>>},
                                {[enabled |-> TRUE, rules |-> <<TextRule(text)>>]},
                                UntimedQuiz) :
                InitState(cfg)
    /\ task = <<>>

TimeSpecNext ==
    \/ GetSchedule /\ UNCHANGED callers
    \/ GetStatus /\ UNCHANGED callers

TimeSpec == TimeInit /\ [][TimeSpecNext]_vars

(* ConnSpec: one IPC connection whose client sends any few lines, blank, *)
(* valid or not, with writes that fail, next to another connection that *)
(* changes the blocklist                                                 *)

MaxLines == 3

L_empty   == <<>>
L_spaces  == <<" ", " ">>
L_ping    == <<"Ping">>
L_list    == <<" ", "GetBlocklist", " ">>
L_add     == <<"AddDomain">> \o D_ab
L_cancel  == <<"CancelBypass">>
L_garbage == <<"{">>
L_badbyte == <<"Ping", BadByte>>

ClientLines == {L_empty, L_spaces, L_ping, L_list, L_add, L_cancel, L_garbage, L_badbyte}

ClientInputs == UNION {[1..n -> ClientLines] : n \in 0..MaxLines}

ConnInit ==
    /\ \E cfg \in Configs({TRUE}, {<<>>}, {NoSchedule}, UntimedQuiz) : InitState(cfg)
    /\ task = <<>>

ConnSpecNext ==
    \/ \E lines \in ClientInputs : Accept(lines)
    \/ \E ok \in BOOLEAN : ConnRead(ok)
    \/ \E sent \in BOOLEAN : ConnWrite(sent)
    \/ \E ok \in BOOLEAN : RemoveDomain(D_ab, ok) /\ UNCHANGED callers

ConnSpec == ConnInit /\ [][ConnSpecNext]_vars

(* QuerySpec: concurrent query tasks, with sends that fail, while the       *)
(* blocklist changes; every started task is scheduled and every lock and   *)
(* upstream lookup returns                                                 *)

MaxTasks == 2
MaxDatagrams == 2

QueryInit ==
    /\ \E cfg \in Configs({TRUE}, {<<D_ab>>}, {NoSchedule}, UntimedQuiz) :
          InitState(cfg)
    /\ task = [t \in 1..MaxTasks |-> FreeTask]

QuerySpecNext ==
    \/ QueryNext(Queries({7}, {TRUE}, {Q_wAB, Q_w}, {"A"}) \cup {NoQuestion},
                 {LookupFound, LookupFailed}, MaxDatagrams)
    \/ \E t \in DOMAIN task : DnsSendFailed(t)
    \/ \E ok \in BOOLEAN : RemoveDomain(D_ab, ok) /\ UNCHANGED callers
    \/ \E ok \in BOOLEAN : AddDomain(D_ab, ok) /\ UNCHANGED callers

QueryFairness ==
    \A t \in 1..MaxTasks :
        /\ WF_vars(DnsDecide(t))
        /\ WF_vars(DnsCount(t))
        /\ WF_vars((\E lookup \in {LookupFound, LookupFailed} : DnsRespond(t, lookup))
                      \/ DnsSendFailed(t))

QuerySpec == QueryInit /\ [][QuerySpecNext]_vars /\ QueryFairness

-----------------------------------------------------------------------------
(* Claims *)

\* names a DNS client may ask for
ProbeNames == {Q_ab, Q_wAB, Q_bab, Q_abw, Q_w}

\* the decision a DNS query for name would get in the current state
Blocked(name) == query_decision(config, schedule, bypass_until, blocker, now, name)

\* the decision it would get in the state the step leads to
BlockedAfter(name) ==
    query_decision(config', schedule', bypass_until', blocker', now', name)

SubmitSucceeded == Response("SubmitQuizAnswers", "Success", "")

\* C1 as stated: with the wall clock fixed and blocking enabled, a name that
\* is blocked stops being blocked only by a SubmitQuizAnswers that returned
\* Success; no other IPC command unblocks it.
C1_OnlyQuizUnblocks ==
    [][\A q \in ProbeNames :
          (config.blocking.enabled /\ now' = now /\ Blocked(q) /\ ~BlockedAfter(q))
              => last' = SubmitSucceeded]_vars

\* C1 amended: a blocked name stops being blocked only by a SubmitQuizAnswers
\* that returned Success, by a RemoveDomain or AddDomain that returned Success
\* (each rebuilds the matcher from the config's list), or by an
\* UpdateSchedule, whatever it returned; RequestBypass, CancelBypass,
\* GetStatus, GetBlocklist, GetSchedule and Ping never unblock a name.
C1_UnblockingCommands ==
    [][\A q \in ProbeNames :
          (config.blocking.enabled /\ now' = now /\ Blocked(q) /\ ~BlockedAfter(q))
              => last' \in {SubmitSucceeded,
                            Response("RemoveDomain", "Success", ""),
                            Response("AddDomain", "Success", ""),
                            Response("UpdateSchedule", "Success", ""),
                            Response("UpdateSchedule", "Error", "config_error")}]_vars

\* C1 witness: a name the matcher holds is not blocked any more after a
\* successful SubmitQuizAnswers
C1_Witness ==
    /\ last = SubmitSucceeded
    /\ config.blocking.enabled
    /\ should_block(blocker, Q_wAB)
    /\ ~Blocked(Q_wAB)
    /\ bypass_in_force(bypass_until, now)

\* clock readings around the start and around the bypass length
ClockValues == 0..MaxSeconds \cup (BypassSeconds - 1)..Horizon

\* C2: at every clock value, is_blocking_active() is true exactly when
\* blocking.enabled, and not (a deadline is set and now < deadline), and (the
\* schedule is disabled or is_blocking_time()); at deadline = now the bypass
\* does not suppress blocking.
C2_BlockingActive ==
    \A t \in ClockValues :
        /\ is_blocking_active(config, schedule, bypass_until, t)
             <=> /\ config.blocking.enabled
                 /\ ~(bypass_until # <<>> /\ t < bypass_until[1])
                 /\ (~config.schedule.enabled \/ is_blocking_time(schedule, t))
        /\ bypass_until = <<t>> =>
             (is_blocking_active(config, schedule, bypass_until, t)
                <=> /\ config.blocking.enabled
                    /\ (~config.schedule.enabled \/ is_blocking_time(schedule, t)))

\* C2 witness: the clock has reached the deadline of a granted bypass and
\* blocking is active again
C2_Witness ==
    /\ bypass_until = <<now>>
    /\ is_blocking_active(config, schedule, bypass_until, now)

\* challenge ids a client may submit; 0 was never issued
ChallengeIds == 0..MaxQuizChallenges

\* every later validate_answers(c, _) returns NotFound
SpentAfter(c) ==
    \A a \in AnswerInputs :
        validate_answers(pending', config'.quiz, c, a, now', mono') = "NotFound"

\* C3: validation is one-shot on every verdict: once validate_answers(c, _)
\* has been called for an issued id c, whatever it returned, every later
\* validate_answers(c, _) returns NotFound (the step that validates c leaves
\* it NotFound, and an issued id that is NotFound stays so in every step).
C3_OneShot ==
    [][\A c \in ChallengeIds :
          /\ (\E ans \in AnswerInputs : SubmitQuizAnswers(c, ans)) => SpentAfter(c)
          /\ (c \in 1..issued /\ c \notin DOMAIN pending) => SpentAfter(c)]_vars

\* C3 witness: a challenge was answered wrongly and its id, with the right
\* answer, is NotFound while a newer challenge is pending
C3_Witness ==
    /\ last = Response("SubmitQuizAnswers", "Error", "quiz_failed")
    /\ issued = 2
    /\ 2 \in DOMAIN pending
    /\ validate_answers(pending, config.quiz, 1, <<4>>, now, mono) = "NotFound"

\* C4: validate_answers returns the first verdict that applies in the order
\* NotFound (id not pending), Expired (now > expiry), TooFast (monotonic
\* seconds since issuance < min_solve_seconds), WrongAnswerCount (length
\* differs), WrongAnswer (an element differs), and success when none applies;
\* correct answers after expiry give Expired, correct answers too early TooFast.
C4_VerdictOrder ==
    \A c \in ChallengeIds, ans \in AnswerInputs :
        LET verdict == validate_answers(pending, config.quiz, c, ans, now, mono)
        IN  /\ verdict = "NotFound" <=> c \notin DOMAIN pending
            /\ c \in DOMAIN pending =>
                 LET ch == pending[c]
                     expired == now > ch.expires_at
                     fast == mono - ch.created_at < config.quiz.min_solve_seconds
                     count == Len(ans) # Len(ch.questions)
                     wrong == \E i \in 1..Len(ch.questions) :
                                 i <= Len(ans) /\ ans[i] # ch.questions[i].answer
                     correct == ans = [i \in 1..Len(ch.questions) |->
                                          ch.questions[i].answer]
                 IN  /\ verdict = "Expired" <=> expired
                     /\ verdict = "TooFast" <=> ~expired /\ fast
                     /\ verdict = "WrongAnswerCount" <=> ~expired /\ ~fast /\ count
                     /\ verdict = "WrongAnswer"
                          <=> ~expired /\ ~fast /\ ~count /\ wrong
                     /\ verdict = "Ok"
                          <=> ~expired /\ ~fast /\ ~count /\ ~wrong
                     /\ (correct /\ expired) => verdict = "Expired"
                     /\ (correct /\ ~expired /\ fast) => verdict = "TooFast"

\* C4 witness: a pending challenge is past its expiry and younger than the
\* minimum solve time, and its correct answer is judged Expired
C4_Witness ==
    \E c \in DOMAIN pending :
        /\ now > pending[c].expires_at
        /\ mono - pending[c].created_at < config.quiz.min_solve_seconds
        /\ validate_answers(pending, config.quiz, c,
                            [i \in 1..Len(pending[c].questions) |->
                                pending[c].questions[i].answer],
                            now, mono) = "Expired"

C6_FailedSubmit ==
    [][/\ \A c \in ChallengeIds, ans \in AnswerInputs :
             (SubmitQuizAnswers(c, ans) /\ last' # SubmitSucceeded) =>
                 LET verdict == validate_answers(pending, config.quiz, c, ans,
                                                 now, mono)
                 IN  /\ verdict # "Ok"
                     /\ last'.type = "Error"
                     /\ verdict = "NotFound" => last'.code = "quiz_not_found"
                     /\ verdict = "Expired" => last'.code = "quiz_expired"
                     /\ verdict = "TooFast" => last'.code = "quiz_too_fast"
                     /\ verdict = "WrongAnswer" => last'.code = "quiz_failed"
                     /\ verdict = "WrongAnswerCount" => last'.code = "quiz_failed"
                     /\ bypass_until' = bypass_until
                     /\ c \notin DOMAIN pending'
                     /\ SpentAfter(c)
       /\ (\E c \in ChallengeIds, ans \in AnswerInputs :
               SubmitQuizAnswers(c, ans) /\ last' # SubmitSucceeded)
              => \A q \in ProbeNames : BlockedAfter(q) = Blocked(q)]_vars

\* C6 witness: with a bypass granted, a later challenge was answered after
\* its expiry; the deadline is still set and the name is still not blocked
C6_Witness ==
    /\ last = Response("SubmitQuizAnswers", "Error", "quiz_expired")
    /\ bypass_until # <<>>
    /\ issued = 2
    /\ pending = <<>>
    /\ ~Blocked(Q_ab)

\* C8: for every blocklist B and name q, should_block(q) is true exactly when
\* some b in B has normalize(q) = normalize(b) or normalize(q) ending with
\* "." + normalize(b); an upper-cased or trailing-dotted query matches a
\* lower-case entry, and a name that only ends with the entry's letters, or
\* only starts with the entry, does not match.
C8_ShouldBlock ==
    LET B == config.blocking.domains
    IN  /\ blocker = update_domains(B)
        /\ \A q \in StringsUpTo(MaxLen) \cup {Q_ab, Q_wAB, Q_bab, Q_abw} :
              should_block(blocker, q)
                <=> \E i \in 1..Len(B) :
                       \/ normalize_domain(q) = normalize_domain(B[i])
                       \/ EndsWith(normalize_domain(q),
                                   <<".">> \o normalize_domain(B[i]))
        /\ B = <<D_ab>> =>
              /\ should_block(blocker, Q_ab)
              /\ should_block(blocker, Q_wAB)
              /\ ~should_block(blocker, Q_bab)
              /\ ~should_block(blocker, Q_abw)
        /\ \A t \in DOMAIN task :
              task[t].pc = "decided" =>
                  task[t].should_block =
                      should_block(blocker, task[t].query[1].queries[1].name)

\* C8 witness: the matcher holds one entry and a query for a name that only
\* ends with the entry's letters has been decided as not blocked
C8_Witness ==
    /\ blocker = <<D_ab>>
    /\ task[1].pc = "decided"
    /\ task[1].query[1].queries[1].name = Q_bab
    /\ ~task[1].should_block
    /\ EndsWith(normalize_domain(Q_bab), D_ab)

\* C9: a parsed query with a question gets the block response exactly when,
\* at the step that takes its decision, is_blocking_active() is true and the
\* matcher matches the name of the first question; otherwise it gets the
\* upstream answer. No query is decided as blocked when the matcher's
\* blocklist is empty or blocking.enabled is false.
C9_BlockDecision ==
    [][\A t \in DOMAIN task :
          /\ (task[t].pc = "parsed" /\ task'[t].pc = "decided") =>
                LET name == task[t].query[1].queries[1].name
                IN  /\ task'[t].should_block
                         <=> /\ is_blocking_active(config, schedule, bypass_until, now)
                             /\ should_block(blocker, name)
                    /\ (blocker = <<>> \/ ~config.blocking.enabled)
                          => ~task'[t].should_block
          /\ (task[t].pc = "decided" /\ task'[t].pc = "counted") =>
                task'[t].should_block = task[t].should_block
          /\ (task[t].pc = "counted" /\ task'[t].pc = "free") =>
                LET query == task[t].query[1]
                    q == query.queries[1]
                    block == create_blocked_response(query, q.name, q.query_type)
                    forwards == {forwarded_response(query, q.name, q.query_type, l) :
                                    l \in {LookupFound, LookupFailed}}
                IN  /\ block \notin forwards
                    /\ task[t].should_block => task'[t].response = <<block>>
                    /\ ~task[t].should_block => task'[t].response[1] \in forwards]_vars

\* C9 witness: a query for a name the matcher holds was decided while the
\* policy was active and has been answered with the block response
C9_Witness ==
    /\ task[1].pc = "free"
    /\ task[1].response # <<>>
    /\ task[1].should_block
    /\ stats.queries_blocked = 1
    /\ task[1].response[1].response_code = "NXDomain"

\* C10: the response to a blocked query has the query's id, is a response
\* with opcode query, recursion_available true, authoritative false,
\* recursion_desired as in the query and the query's questions; for type A it
\* carries the one answer 0.0.0.0 with TTL 60 and NOERROR, for AAAA the one
\* answer :: with TTL 60 and NOERROR, for any other type NXDOMAIN and no answer.
C10_BlockedResponse ==
    \A t \in DOMAIN task :
        (task[t].pc = "free" /\ task[t].response # <<>> /\ task[t].should_block) =>
            LET query == task[t].query[1]
                q == query.queries[1]
                r == task[t].response[1]
            IN  /\ r.id = query.id
                /\ r.message_type = "Response"
                /\ r.op_code = "Query"
                /\ r.recursion_available
                /\ ~r.authoritative
                /\ r.recursion_desired = query.recursion_desired
                /\ r.queries = query.queries
                /\ q.query_type = "A" =>
                      /\ r.response_code = "NoError"
                      /\ r.answers = <<[name |-> q.name, ttl |-> 60,
                                        record_type |-> "A", rdata |-> "0.0.0.0"]>>
                /\ q.query_type = "AAAA" =>
                      /\ r.response_code = "NoError"
                      /\ r.answers = <<[name |-> q.name, ttl |-> 60,
                                        record_type |-> "AAAA", rdata |-> "::"]>>
                /\ q.query_type \notin {"A", "AAAA"} =>
                      /\ r.response_code = "NXDomain"
                      /\ r.answers = <<>>

\* C10 witness: a blocked AAAA query that asked for recursion has been answered
C10_Witness ==
    /\ task[1].pc = "free"
    /\ task[1].response # <<>>
    /\ task[1].should_block
    /\ task[1].query[1].recursion_desired
    /\ task[1].query[1].queries[1].query_type = "AAAA"
    /\ task[1].response[1].answers # <<>>

\* GetBlocklist returns entry and the matcher holds its normal form
Held(entry) ==
    /\ Contains(blocked_domains(config), entry)
    /\ Contains(blocker, normalize_domain(entry))

HeldAfter(entry) ==
    /\ Contains(blocked_domains(config'), entry)
    /\ Contains(blocker', normalize_domain(entry))

\* the name of a DNS query equals entry or ends with "." + entry, as domain
\* names: without the root dot and in lower case
NameUnder(name, entry) ==
    \/ normalize_domain(name) = entry
    \/ EndsWith(normalize_domain(name), <<".">> \o entry)

\* C7: after AddDomain(X) returns Success, GetBlocklist contains normalize(X)
\* until a RemoveDomain removes it, and till then every DNS query whose name
\* equals normalize(X) or ends with "." + normalize(X) is decided as blocked
\* whenever the policy is active.
C7_AddedDomainBlocked ==
    [][/\ \A X \in ListDomains :
             ((\E ok \in BOOLEAN : AddDomain(X, ok))
                 /\ last' = Response("AddDomain", "Success", ""))
                => HeldAfter(config_normalize_domain(X))
       /\ \A X \in ListDomains :
             LET entry == config_normalize_domain(X)
             IN  Held(entry) =>
                    \/ HeldAfter(entry)
                    \/ /\ \E d \in ListDomains, ok \in BOOLEAN : RemoveDomain(d, ok)
                       /\ ~Contains(blocked_domains(config'), entry)
       /\ \A t \in DOMAIN task, X \in ListDomains :
             LET entry == config_normalize_domain(X)
             IN  (/\ task[t].pc = "parsed" /\ task'[t].pc = "decided"
                  /\ Held(entry)
                  /\ is_blocking_active(config, schedule, bypass_until, now)
                  /\ NameUnder(task[t].query[1].queries[1].name, entry))
                    => task'[t].should_block]_vars

\* C7 witness: AddDomain("a.b") succeeded on an empty blocklist, and a query
\* for W.A.B. has been decided as blocked
C7_Witness ==
    /\ last = Response("AddDomain", "Success", "")
    /\ blocked_domains(config) = <<D_ab>>
    /\ disk[1].blocking.domains = <<D_ab>>
    /\ task[1].pc = "decided"
    /\ task[1].query[1].queries[1].name = Q_wAB
    /\ task[1].should_block

\* the task in slot t has sent one response of the three kinds, with the
\* query's id
Answered(t) ==
    /\ task[t].pc = "free"
    /\ task[t].response # <<>>
    /\ LET query == task[t].query[1]
           q == query.queries[1]
           r == task[t].response[1]
       IN  /\ r.id = query.id
           /\ \/ r = create_blocked_response(query, q.name, q.query_type)
              \/ r = [upstream_response(q.name, q.query_type, LookupFound[1])
                         EXCEPT !.id = query.id]
              \/ /\ r.response_code = "ServFail"
                 /\ r.queries = query.queries
                 /\ r.answers = <<>>

\* the task in slot t ended on a failed send: its query got no response
SendFailed(t) ==
    /\ task[t].pc = "free"
    /\ task[t].query # <<>>
    /\ task[t].response = <<>>

\* C11 as stated: every datagram that parses with a question is eventually
\* answered with one response carrying the query's id: the block response,
\* the upstream answer with its id patched, or SERVFAIL with the question
\* echoed and no answers.
C11_EveryQueryAnswered ==
    \A t \in 1..MaxTasks : (task[t].pc = "parsed") ~> Answered(t)

\* C11 amended: every datagram that parses with a question is eventually
\* either answered with one response of these three kinds carrying the
\* query's id, or, when serializing or sending the response fails, left
\* without a response; a response is sent only at the end of a task that
\* passed the decision and the counter update; a datagram that fails to parse
\* or has no question gets no response.
C11_AnsweredUnlessSendFails ==
    /\ \A t \in 1..MaxTasks :
          (task[t].pc = "parsed") ~> (Answered(t) \/ SendFailed(t))
    /\ [][\A t \in DOMAIN task :
             /\ (task[t].pc = "free" /\ task'[t] # task[t]) =>
                   /\ task'[t].response = <<>>
                   /\ task'[t].pc = "free" => task'[t] = FreeTask
                   /\ task'[t].pc # "free" =>
                         /\ task'[t].pc = "parsed"
                         /\ task'[t].query[1].queries # <<>>
             /\ task'[t].response # task[t].response =>
                   \/ task[t].pc = "free"
                   \/ /\ task[t].pc = "counted"
                      /\ Answered(t)' \/ SendFailed(t)']_vars

\* C11 witness: one task answered SERVFAIL and the other ended on a failed send
C11_Witness ==
    /\ Answered(1)
    /\ task[1].response[1].response_code = "ServFail"
    /\ SendFailed(2)

-----------------------------------------------------------------------------
(* C12 *)

\* the tasks that pass their counter update in this step
Counting == {t \in DOMAIN task : task[t].pc = "decided" /\ task'[t].pc = "counted"}

\* C12: under any interleaving of the query tasks, a task that parsed a
\* question passes through exactly one counter update before it ends
\* (parsed, decided, counted, in this order, and a slot takes a new datagram
\* only from free); that update adds one to queries_blocked when the decision
\* was to block and one to queries_forwarded otherwise and leaves the other
\* counter alone; no other step changes a counter, so no increment is lost
\* and an unparsable or question-less datagram counts nowhere; the response
\* sent is the block response exactly when the blocked counter was the one
\* incremented, also when the upstream lookup fails.
C12_EveryQueryCountedOnce ==
    [][/\ \A t \in DOMAIN task :
             /\ task[t].pc = "free" => task'[t].pc \in {"free", "parsed"}
             /\ task[t].pc = "parsed" => task'[t].pc \in {"parsed", "decided"}
             /\ task[t].pc = "decided" =>
                    /\ task'[t].pc \in {"decided", "counted"}
                    /\ task'[t].should_block = task[t].should_block
             /\ task[t].pc = "counted" =>
                    /\ task'[t].pc \in {"counted", "free"}
                    /\ task'[t].should_block = task[t].should_block
                    /\ task'[t].response # <<>> =>
                           (task[t].should_block <=>
                              task'[t].response[1] =
                                 create_blocked_response(
                                    task[t].query[1],
                                    task[t].query[1].queries[1].name,
                                    task[t].query[1].queries[1].query_type))
       /\ Cardinality(Counting) <= 1
       /\ Counting = {} => stats' = stats
       /\ \A t \in Counting :
             /\ stats'.queries_blocked =
                   stats.queries_blocked + (IF task[t].should_block THEN 1 ELSE 0)
             /\ stats'.queries_forwarded =
                   stats.queries_forwarded + (IF task[t].should_block THEN 0 ELSE 1)]_vars

\* two concurrent queries have both been counted, one blocked and answered
\* with the block response, one forwarded and answered SERVFAIL
C12_Witness ==
    /\ \A t \in DOMAIN task : task[t].pc = "free" /\ task[t].response # <<>>
    /\ stats = [queries_blocked |-> 1, queries_forwarded |-> 1]
    /\ task[1].should_block /\ task[1].response[1].response_code = "NoError"
    /\ ~task[2].should_block /\ task[2].response[1].response_code = "ServFail"

-----------------------------------------------------------------------------
(* C13 *)

\* what the AppState lock guards
shared == <<config, disk, schedule, blocker, pending, issued, bypass_until, stats>>

\* C13: a DNS decision is computed, in one step that changes nothing of the
\* shared state, from the blocklist matcher, the schedule, the enabled flag
\* and the bypass deadline as they are when the task takes the read guard,
\* that is as the last AddDomain, RemoveDomain, UpdateSchedule,
\* SubmitQuizAnswers or CancelBypass to release the write guard left them;
\* and no command runs inside a decision: a step of a command leaves every
\* task where it was.
C13_ReadAfterWrite ==
    [][/\ \A t \in DOMAIN task :
             (task[t].pc = "parsed" /\ task'[t].pc = "decided") =>
                 /\ task'[t].should_block =
                        BlockedAfter(task[t].query[1].queries[1].name)
                 /\ shared' = shared
       /\ last' # last => task' = task]_vars

\* a name on the blocklist is decided as not blocked right after the quiz was
\* passed, and the last command to run was that SubmitQuizAnswers
C13_Witness ==
    /\ last = SubmitSucceeded
    /\ task[1].pc = "decided"
    /\ ~task[1].should_block
    /\ should_block(blocker, task[1].query[1].queries[1].name)
    /\ config.blocking.enabled
    /\ ~schedule.enabled

-----------------------------------------------------------------------------
(* C14 *)

\* C14: between commands, also after a command that answered with an error,
\* the matcher holds the normalization, entry by entry, of the blocklist the
\* config holds, and the blocked_domains_count of GetStatus is the number of
\* entries the matcher holds.
C14_MatcherFollowsConfig ==
    /\ blocker = update_domains(blocked_domains(config))
    /\ StatusPayload.blocked_domains_count = Len(blocker)

-----------------------------------------------------------------------------
(* C15 *)

\* C15: between commands the schedule the engine holds is the schedule the
\* config holds, so the enabled flag is_blocking_active reads from the config
\* and the rules is_blocking_time reads from the engine are one schedule's,
\* and the schedule GetSchedule returns (the config's) is the one the policy
\* evaluates.
C15_EngineFollowsConfig ==
    /\ schedule = config.schedule
    /\ is_blocking_active(config, schedule, bypass_until, now)
          = is_blocking_active(config, config.schedule, bypass_until, now)

\* an UpdateSchedule whose write failed has changed the engine and the config
\* alike and left the file behind
C15_Witness ==
    /\ last = Response("UpdateSchedule", "Error", "config_error")
    /\ schedule = EmptySchedule
    /\ config.schedule = EmptySchedule
    /\ disk[1].schedule = NoSchedule

-----------------------------------------------------------------------------
(* C16 *)

RemoveSucceeded == Response("RemoveDomain", "Success", "")
RemoveNotFound == Response("RemoveDomain", "Error", "invalid_domain")
RemoveNotSaved == Response("RemoveDomain", "Error", "config_error")

\* list without its first entry equal to x, the other entries in their order
WithoutFirst(list, x, rest) ==
    \E i \in 1..Len(list) :
        /\ list[i] = x
        /\ \A j \in 1..(i - 1) : list[j] # x
        /\ rest = SubSeq(list, 1, i - 1) \o SubSeq(list, i + 1, Len(list))

-----------------------------------------------------------------------------
(* C17 *)

AddSucceeded == Response("AddDomain", "Success", "")
AddNotSaved == Response("AddDomain", "Error", "config_error")

NoDuplicates(list) ==
    \A i, j \in 1..Len(list) : list[i] = list[j] => i = j

\* C17, as stated: AddDomain(d) with normalize(d) already in the blocklist
\* answers Success and leaves the blocklist unchanged, and a blocklist loaded
\* without duplicates never holds two equal entries.
C17_SetSemantics ==
    /\ []NoDuplicates(config.blocking.domains)
    /\ [][\A d \in StoreDomains, ok \in BOOLEAN :
             (/\ AddDomain(d, ok)
              /\ Contains(config.blocking.domains, config_normalize_domain(d))) =>
                 /\ last' = AddSucceeded
                 /\ config'.blocking.domains = config.blocking.domains]_vars

\* C17, as the code has it: AddDomain(d) with normalize(d) already in the
\* blocklist leaves the blocklist unchanged and writes the config again; it
\* answers Success when that write succeeds and config_error when it fails;
\* and a blocklist loaded without duplicates never holds two equal entries.
C17_SetSemanticsWritten ==
    /\ []NoDuplicates(config.blocking.domains)
    /\ [][\A d \in StoreDomains, ok \in BOOLEAN :
             (/\ AddDomain(d, ok)
              /\ Contains(config.blocking.domains, config_normalize_domain(d))) =>
                 /\ last' = (IF ok THEN AddSucceeded ELSE AddNotSaved)
                 /\ config'.blocking.domains = config.blocking.domains
                 /\ disk' = (IF ok THEN <<config>> ELSE disk)]_vars

\* a.b is added a second time, after a schedule change that was not written:
\* the list is as it was and the write of the second AddDomain brought the
\* file up to date
C17_Witness ==
    /\ last = AddSucceeded
    /\ config.blocking.domains = <<D_ab>>
    /\ config.schedule = EmptySchedule
    /\ disk = <<config>>
    /\ blocker = <<D_ab>>

-----------------------------------------------------------------------------
(* C18 *)

\* C18: every entry of the config's blocklist and every entry of the
\* matcher's list is its own normalization, whatever file was loaded and
\* whatever AddDomain and RemoveDomain commands ran.
C18_EntriesNormalized ==
    /\ \A i \in 1..Len(config.blocking.domains) :
          config.blocking.domains[i]
             = config_normalize_domain(config.blocking.domains[i])
    /\ \A i \in 1..Len(blocker) : blocker[i] = normalize_domain(blocker[i])

-----------------------------------------------------------------------------
(* C19 *)

\* C19: normalizing twice gives what normalizing once gives, for every string
\* handed to the matcher, and the config store's normalize_domain and the
\* matcher's give the same string.
C19_NormalizeIdempotent ==
    \A i \in 1..Len(config.blocking.domains) :
        LET d == config.blocking.domains[i]
        IN  /\ blocker[i] = normalize_domain(d)
            /\ normalize_domain(blocker[i]) = blocker[i]
            /\ config_normalize_domain(config_normalize_domain(d))
                  = config_normalize_domain(d)
            /\ config_normalize_domain(d) = normalize_domain(d)

-----------------------------------------------------------------------------
(* C20 *)

NotSaved(cmd) == Response(cmd, "Error", "config_error")

\* C20: after an AddDomain, RemoveDomain or UpdateSchedule that answered
\* config_error, GetBlocklist, GetSchedule, GetStatus and the DNS decisions
\* give what they gave before the command.
C20_FailedWriteNoOp ==
    [][(/\ task' = task
        /\ last' \in {NotSaved("AddDomain"), NotSaved("RemoveDomain"),
                      NotSaved("UpdateSchedule")}) =>
          /\ config'.blocking.domains = config.blocking.domains
          /\ config'.schedule = config.schedule
          /\ Len(config'.blocking.domains) = Len(config.blocking.domains)
          /\ is_blocking_active(config', schedule', bypass_until', now')
                = is_blocking_active(config, schedule, bypass_until, now)
          /\ active_rule_name(schedule', now') = active_rule_name(schedule, now)
          /\ stats' = stats /\ bypass_until' = bypass_until
          /\ \A q \in ProbeNames : BlockedAfter(q) = Blocked(q)]_vars

-----------------------------------------------------------------------------
(* C21 *)

\* C21: the bypass_until GetStatus reports is a timestamp exactly while a
\* bypass is in force (a deadline was granted, not cancelled, and now is
\* before it); once the wall clock has reached the deadline it is none.
C21_DeadlineCleared ==
    /\ StatusPayload.bypass_until # <<>> => now < StatusPayload.bypass_until[1]
    /\ ~bypass_in_force(bypass_until, now) => StatusPayload.bypass_until = <<>>

-----------------------------------------------------------------------------
(* C22 *)

CancelSucceeded == Response("CancelBypass", "Success", "")

\* C22: CancelBypass answers Success whether or not a bypass is in force;
\* afterwards the deadline is unset and is_blocking_active() is
\* blocking.enabled and (schedule disabled or the schedule matches now); the
\* blocklist, the matcher, the schedule, the file, the pending challenges and
\* the counters are as before; and a second CancelBypass changes nothing the
\* first did not.
C22_CancelBypass ==
    [][CancelBypass =>
          /\ last' = CancelSucceeded
          /\ bypass_until' = <<>>
          /\ is_blocking_active(config', schedule', bypass_until', now')
                <=> /\ config.blocking.enabled
                    /\ (~config.schedule.enabled \/ is_blocking_time(schedule, now))
          /\ <<config, disk, schedule, blocker, pending, issued, stats>>'
                = <<config, disk, schedule, blocker, pending, issued, stats>>
          /\ bypass_until = <<>> /\ last = CancelSucceeded => vars' = vars]_vars

\* a bypass was granted, a query for a blocked name was forwarded under it,
\* and the bypass was cancelled before its deadline: the name is blocked again
C22_Witness ==
    /\ last = CancelSucceeded
    /\ bypass_until = <<>>
    /\ stats.queries_forwarded = 1
    /\ config.blocking.enabled
    /\ ~config.schedule.enabled
    /\ now < BypassSeconds
    /\ Blocked(Q_wAB)

-----------------------------------------------------------------------------
(* C23 *)

\* the days of a rule, as a set
RuleDays(rule) == {rule.days[i] : i \in 1..Len(rule.days)}

\* C23: at every weekday d and time of day t, a rule matches exactly when d
\* is one of its days and, for start <= end, start <= t < end (never, when
\* start = end) or, for start > end, t >= start or t < end; the part of an
\* overnight window after midnight is matched on the rule's own days, not on
\* the day after.
C23_RuleMatches ==
    \A i \in 1..Len(schedule.rules), at \in CalendarTimes \cup {now} :
        LET rule == schedule.rules[i]
            d == LocalWeekday(at)
            t == LocalTime(at)
            start == rule.start_time.hour * 3600 + rule.start_time.minute * 60
            end == rule.end_time.hour * 3600 + rule.end_time.minute * 60
        IN  /\ rule_matches(rule, d, t)
                 <=> /\ d \in RuleDays(rule)
                     /\ \/ start <= end /\ start <= t /\ t < end
                        \/ start > end /\ (t >= start \/ t < end)
            /\ start = end => ~rule_matches(rule, d, t)
            /\ (start > end /\ t < end) => (rule_matches(rule, d, t) <=> d \in RuleDays(rule))

\* Thursday 00:00 under a Thursday rule from 23:45 to 00:15: GetStatus names
\* the rule, matched in the part after midnight on Thursday itself
C23_Witness ==
    /\ last = Response("GetStatus", "Status", "")
    /\ now = 0
    /\ schedule = [enabled |-> TRUE, rules |-> <<LateRule>>]
    /\ rule_matches(LateRule, "thu", 0)
    /\ StatusPayload.active_schedule_rule = <<"Late">>

-----------------------------------------------------------------------------
(* C24 *)

\* the rules of sched that match the local weekday and time of instant at
MatchingRules(sched, at) ==
    {i \in 1..Len(sched.rules) :
        rule_matches(sched.rules[i], LocalWeekday(at), LocalTime(at))}

\* C24: at every instant, is_blocking_time() is true exactly when the
\* schedule is disabled, or it is enabled, has a rule, and some rule matches
\* the local weekday and time; under an enabled schedule with no rule
\* is_blocking_time() and is_blocking_active() are false.
C24_BlockingTime ==
    \A at \in CalendarTimes \cup {now} :
        /\ is_blocking_time(schedule, at)
              <=> \/ ~schedule.enabled
                  \/ /\ schedule.enabled
                     /\ Len(schedule.rules) >= 1
                     /\ MatchingRules(schedule, at) # {}
        /\ (schedule.enabled /\ schedule.rules = <<>>) =>
              /\ ~is_blocking_time(schedule, at)
              /\ ~is_blocking_active(config, schedule, bypass_until, at)

\* with blocking enabled and an enabled schedule without rules, a query for a
\* name on the blocklist was forwarded
C24_Witness ==
    /\ config.blocking.enabled
    /\ schedule = [enabled |-> TRUE, rules |-> <<>>]
    /\ should_block(blocker, Q_wAB)
    /\ task[1].pc = "free" /\ task[1].response # <<>>
    /\ ~task[1].should_block
    /\ stats.queries_forwarded = 1

-----------------------------------------------------------------------------
(* C25 *)

\* C25: under an enabled schedule with at least one rule, at every instant
\* active_rule_name() is present exactly when is_blocking_time() is true, and
\* it is then the name of the first rule of the list that matches; under a
\* disabled or empty schedule it is absent.
C25_ActiveRuleName ==
    \A at \in CalendarTimes \cup {now} :
        LET name == active_rule_name(schedule, at)
            hits == MatchingRules(schedule, at)
        IN  /\ (schedule.enabled /\ schedule.rules # <<>>) =>
                  /\ name # <<>> <=> is_blocking_time(schedule, at)
                  /\ name # <<>> =>
                        \E i \in hits : /\ \A j \in hits : i <= j
                                        /\ name = <<schedule.rules[i].name>>
            /\ (~schedule.enabled \/ schedule.rules = <<>>) => name = <<>>

\* Thursday 00:00 under the rules Point, Late, Early: Point does not match,
\* Late and Early do, and GetStatus names Late
C25_Witness ==
    /\ last = Response("GetStatus", "Status", "")
    /\ now = 0
    /\ schedule = [enabled |-> TRUE, rules |-> <<PointRule, LateRule, EarlyRule>>]
    /\ MatchingRules(schedule, now) = {2, 3}
    /\ StatusPayload.active_schedule_rule = <<"Late">>

-----------------------------------------------------------------------------
(* C28 *)

\* C28: both counters start at zero and never decrease; a step that changes
\* a counter is a step of a DNS query task, and a step of a DNS query task
\* changes nothing of the AppState but the counters (config, file, schedule,
\* matcher, pending challenges, bypass deadline); a step of an IPC command,
\* which leaves every task where it was, changes neither counter.
C28_CountersFrame ==
    /\ stats = [queries_blocked |-> 0, queries_forwarded |-> 0]
    /\ [][/\ stats'.queries_blocked >= stats.queries_blocked
          /\ stats'.queries_forwarded >= stats.queries_forwarded
          /\ stats' # stats => task' # task
          /\ task' = task => stats' = stats
          /\ task' # task =>
                <<config, disk, schedule, blocker, pending, issued, bypass_until>>'
                   = <<config, disk, schedule, blocker, pending, issued, bypass_until>>]_vars

\* a query was counted as forwarded under a bypass, between commands that
\* changed the blocklist and cancelled the bypass
C28_Witness ==
    /\ stats = [queries_blocked |-> 0, queries_forwarded |-> 1]
    /\ last = CancelSucceeded
    /\ issued = 1
    /\ pending = <<>>
    /\ config.blocking.domains = <<D_ab>>
    /\ disk[1].blocking.domains = <<>>
    /\ task[1].pc = "free" /\ task[1].response # <<>>

-----------------------------------------------------------------------------
(* C30 *)

\* C30: a challenge that validate_answers would not reject as Expired at the
\* current clock value (now <= its expiry) is still pending after a
\* generate_challenge call made at that clock value.
C30_SweepKeepsValid ==
    [][issued' = issued + 1 =>
          \A c \in DOMAIN pending :
              now <= pending[c].expires_at => c \in DOMAIN pending']_vars

-----------------------------------------------------------------------------
(* C29 *)

\* "HH:MM" for hour h and minute m
TextOf(h, m) ==
    <<DigitChars[(h \div 10) + 1], DigitChars[(h % 10) + 1], ":",
      DigitChars[(m \div 10) + 1], DigitChars[(m % 10) + 1]>>

\* C29: for the hour h in 0..23 and minute m in 0..59 of every time the
\* config holds, the text "HH:MM" parses to the wrapper with hour h and
\* minute m, and that wrapper is written as the same text.
C29_TimeRoundTrip ==
    \A i \in 1..Len(config.schedule.rules) :
        LET h == config.schedule.rules[i].start_time.hour
            m == config.schedule.rules[i].start_time.minute
            text == TextOf(h, m)
        IN  /\ h \in 0..23 /\ m \in 0..59
            /\ text \in ClockTexts
            /\ parse_hm(text) = <<[hour |-> h, minute |-> m]>>
            /\ format_hm(parse_hm(text)[1]) = text

\* the file spelled 09:05 and GetSchedule has served the schedule
C29_Witness ==
    /\ last = Response("GetSchedule", "Schedule", "")
    /\ config.schedule.rules[1].start_time = [hour |-> 9, minute |-> 5]
    /\ format_hm(config.schedule.rules[1].start_time) = <<"0", "9", ":", "0", "5">>

-----------------------------------------------------------------------------
(* C26 *)

NonEmpty(line) == line # <<>>

\* a line the handler answers: readable, and not blank once trimmed
Answerable(line) == IsUtf8(line) /\ Trim(line) # <<>>

\* the command a response to the line names: none for a line that does not parse
AnsweredCommand(line) ==
    IF parse_command(Trim(line)) = <<>> THEN ""
    ELSE parse_command(Trim(line))[1].type

\* the responses written answer, in order, the lines of asked
InOrder(asked) ==
    /\ Len(conn.output) <= Len(asked)
    /\ \A i \in 1..Len(conn.output) : conn.output[i].cmd = AnsweredCommand(asked[i])

\* the handler takes a line only when every line before it is answered
Serial(Asked(_)) ==
    (conn'.read # conn.read) =>
        /\ conn.pc = "reading"
        /\ Len(conn.output) = Len(SelectSeq(conn.read, Asked))

\* C26, as stated: whenever the handler is between lines or has ended, it has
\* written one response for each non-empty line it has read and none for an
\* empty one, the i-th response answering the i-th non-empty line; and it
\* takes a line only when the response to the line before is written.
C26_OneResponsePerLine ==
    /\ [](conn.pc \in {"reading", "closed"} =>
             /\ Len(conn.output) = Len(SelectSeq(conn.read, NonEmpty))
             /\ InOrder(SelectSeq(conn.read, NonEmpty)))
    /\ [][Serial(NonEmpty)]_vars

\* C26, as the code has it: the lines answered are those that are not blank
\* once trimmed (an empty line and a line of spaces get no response); while
\* the handler is between lines it has written one response for each such
\* line it has read, the i-th response answering the i-th of them; while a
\* response is being written exactly the last of them is unanswered; the
\* handler takes a line only when the response to the line before is
\* written; and a connection ends with a line unanswered only when that
\* response could not be written, or without a response for a line that is
\* not UTF-8.
C26_OneResponsePerAnswerableLine ==
    /\ [](LET asked == SelectSeq(conn.read, Answerable)
          IN  /\ InOrder(asked)
              /\ conn.pc = "reading" => Len(conn.output) = Len(asked)
              /\ conn.pc = "writing" =>
                    /\ Len(conn.output) = Len(asked) - 1
                    /\ conn.response # <<>>
                    /\ conn.response[1].cmd = AnsweredCommand(asked[Len(asked)])
              /\ conn.pc = "closed" => Len(conn.output) >= Len(asked) - 1)
    /\ [][Serial(Answerable)]_vars
    /\ [][(conn'.pc = "closed" /\ conn.pc # "closed"
              /\ Len(conn'.output) < Len(SelectSeq(conn'.read, Answerable)))
            => conn.pc = "writing"]_vars

\* a line of spaces, an AddDomain and a Ping were read and the two commands
\* answered in that order
C26_Witness ==
    /\ conn.pc = "reading"
    /\ conn.read = <<L_spaces, L_add, L_ping>>
    /\ Len(conn.output) = 2
    /\ conn.output[1].cmd = "AddDomain"
    /\ conn.output[2] = Response("Ping", "Pong", "")

-----------------------------------------------------------------------------
(* C27 *)

\* a line that reaches the parser and is refused by it
Unparsable(line) ==
    /\ IsUtf8(line)
    /\ Trim(line) # <<>>
    /\ parse_command(Trim(line)) = <<>>

\* a line that reaches the parser and is a command
Parsable(line) ==
    /\ IsUtf8(line)
    /\ Trim(line) # <<>>
    /\ parse_command(Trim(line)) # <<>>

\* the handler takes the next line of its input
TakesLine == conn.pc = "reading" /\ conn.input # <<>> /\ conn'.read # conn.read

\* the last line read was refused and its response written
InvalidAnswered ==
    /\ conn.pc = "reading"
    /\ conn.read # <<>>
    /\ Unparsable(conn.read[Len(conn.read)])
    /\ conn.output # <<>>
    /\ conn.output[Len(conn.output)] = InvalidCommand

\* C27: reading a line that does not parse as a command makes the response
\* Error invalid_command and changes nothing of the daemon's state; writing
\* that response puts it on the same connection and leaves the handler
\* reading; and the next line, when it is a valid command, is run as that
\* command and answered with its response.
C27_InvalidCommand ==
    /\ [][(TakesLine /\ Unparsable(Head(conn.input))) =>
             /\ conn'.pc = "writing"
             /\ conn'.response = <<InvalidCommand>>
             /\ daemon' = daemon]_vars
    /\ [][(conn.pc = "writing" /\ conn.response = <<InvalidCommand>>
              /\ conn'.output # conn.output) =>
             /\ conn'.output = Append(conn.output, InvalidCommand)
             /\ conn'.pc = "reading"
             /\ daemon' = daemon]_vars
    /\ [][(InvalidAnswered /\ TakesLine /\ Parsable(Head(conn.input))) =>
             LET cmd == parse_command(Trim(Head(conn.input)))[1]
             IN  /\ \E write_ok \in BOOLEAN : RunCommand(cmd, write_ok)
                 /\ last'.cmd = cmd.type
                 /\ conn'.pc = "writing"
                 /\ conn'.response = <<last'>>]_vars

\* a line that is no command was answered with invalid_command, and the
\* AddDomain that followed it on the connection was carried out and answered
C27_Witness ==
    /\ conn.pc = "reading"
    /\ conn.read = <<L_garbage, L_add>>
    /\ Len(conn.output) = 2
    /\ conn.output[1] = InvalidCommand
    /\ conn.output[2].cmd = "AddDomain"
    /\ conn.output[2].type = "Success"
    /\ config.blocking.domains = <<D_ab>>

-----------------------------------------------------------------------------
(* C31 *)

\* the ids pending before the step and no longer after it
Removed == DOMAIN pending \ DOMAIN pending'

\* the ids pending after the step and not before it
Added == DOMAIN pending' \ DOMAIN pending

\* the step is a RequestBypass that was answered with a challenge
Issues == issued' = issued + 1 /\ last'.cmd = "RequestBypass"

\* C31: the pending table starts empty and holds only ids that were issued;
\* an id enters it only by being issued, and is then different from every id
\* issued before; an id leaves it only by being submitted for validation,
\* which removes that id alone, or by the expiry sweep of an issuance, which
\* removes only expired entries; and every challenge that stays keeps its
\* answers, its start instant and its expiry.
C31_PendingTable ==
    /\ pending = <<>> /\ issued = 0
    /\ [](DOMAIN pending \subseteq 1..issued)
    /\ [][/\ issued' >= issued
          /\ \A c \in DOMAIN pending \cap DOMAIN pending' : pending'[c] = pending[c]
          /\ Added # {} => Issues /\ Added = {issued'} /\ issued' \notin 1..issued
          /\ Issues => /\ Added = {issued'}
                       /\ \A c \in Removed : pending[c].expires_at <= now
          /\ (Removed # {} /\ ~Issues) =>
                \E c \in ChallengeIds : Removed = {c} /\ last'.cmd = "SubmitQuizAnswers"
          /\ \A c \in ChallengeIds : (\E ans \in AnswerInputs : SubmitQuizAnswers(c, ans)) =>
                DOMAIN pending' = DOMAIN pending \ {c}]_vars

\* two challenges were issued, the first was submitted and accepted, and the
\* second is still pending
C31_Witness ==
    /\ issued = 2
    /\ DOMAIN pending = {2}
    /\ last = SubmitSucceeded

-----------------------------------------------------------------------------
(* C32 *)

\* the answers stored for a pending challenge, in order
StoredAnswers(c) == [i \in 1..Len(pending[c].questions) |-> pending[c].questions[i].answer]

\* C32: a RequestBypass returns a challenge with exactly num_questions
\* display strings and stores under the returned id the questions with those
\* display strings, in the same order, each with its answer; the expiry
\* returned is the expiry stored and is the wall clock at issuance plus
\* timeout_seconds; and submitting exactly the stored answers of a pending
\* challenge before its expiry, once min_solve_seconds have passed, succeeds.
C32_ChallengeStored ==
    /\ [][\A m \in {10, 15} :
          \A ds \in [1..config.quiz.num_questions -> DrawInputs] :
             RequestBypass(m, ds) =>
                LET wire == wire_challenge(config.quiz, issued', ds, now)
                    stored == pending'[wire.challenge_id]
                IN  /\ wire.challenge_id \in DOMAIN pending'
                    /\ Len(wire.questions) = config.quiz.num_questions
                    /\ Len(stored.questions) = Len(wire.questions)
                    /\ \A i \in 1..Len(wire.questions) :
                          /\ stored.questions[i].display = wire.questions[i]
                          /\ stored.questions[i] = generate_question(ds[i])
                    /\ wire.expires_at = stored.expires_at
                    /\ wire.expires_at = now + config.quiz.timeout_seconds]_vars
    /\ [][\A c \in DOMAIN pending :
             (/\ SubmitQuizAnswers(c, StoredAnswers(c))
              /\ now < pending[c].expires_at
              /\ mono - pending[c].created_at >= config.quiz.min_solve_seconds) =>
                /\ last' = SubmitSucceeded
                /\ bypass_until' = activate_bypass(BypassMinutes, now)]_vars

\* a challenge of two questions was issued and an answer list was accepted
\* for it before its expiry
C32_Witness ==
    /\ config.quiz.num_questions = 2
    /\ issued = 1
    /\ pending = <<>>
    /\ last = SubmitSucceeded
    /\ bypass_until = <<now + BypassSeconds>>
    /\ now < config.quiz.timeout_seconds

-----------------------------------------------------------------------------
(* C33 *)

MutatingCommands == {"AddDomain", "RemoveDomain", "UpdateSchedule"}

\* the step is an IPC command, which leaves the query tasks where they are,
\* and the command is one that rewrites the config
Mutates == task' = task /\ last'.cmd \in MutatingCommands

\* C33: a step of AddDomain, RemoveDomain or UpdateSchedule that reports
\* Success leaves the config file equal to the in-memory config, whatever
\* the two were before it (an earlier write may have failed); and no other
\* step changes the in-memory config or the file, so the two stay equal
\* until the next of these commands.
C33_DurableOnSuccess ==
    /\ [][(Mutates /\ last'.type = "Success") => disk' = <<config'>>]_vars
    /\ [][~Mutates => (config' = config /\ disk' = disk)]_vars

\* an UpdateSchedule succeeded and the file holds the in-memory config, while
\* the matcher still lacks an entry of the list: an earlier AddDomain had
\* failed to persist
C33_Witness ==
    /\ last = Response("UpdateSchedule", "Success", "")
    /\ disk = <<config>>
    /\ config.blocking.domains = <<D_ab>>
    /\ blocker = <<>>

-----------------------------------------------------------------------------
(* C34 *)

\* every question now pending
PendingQuestions ==
    UNION {{pending[c].questions[i] : i \in 1..Len(pending[c].questions)} : c \in DOMAIN pending}

\* r is the sum a + b of the integers a and b (no i32 is, when the sum leaves
\* the i32 range)
IsSum(a, b, r) == ~add_overflows(a, b) /\ r = a + b

\* r is the difference a - b of the integers a and b
IsDifference(a, b, r) == ~sub_overflows(a, b) /\ r = a - b

\* C34: with min_operand <= max_operand, every stored question is an
\* addition of two operands in [min_operand, max_operand] whose answer is
\* their sum, or a subtraction of b in [min_operand, a] from a in
\* [min_operand, max_operand] whose answer is their difference and is not
\* negative, or a multiplication of two operands in
\* [2, max(floor(sqrt(max_operand)), 12)] whose answer is their product.
C34_QuestionArithmetic ==
    config.quiz.min_operand <= config.quiz.max_operand =>
        \A q \in PendingQuestions :
            LET a  == q.display[1]
                b  == q.display[3]
                lo == config.quiz.min_operand
                hi == config.quiz.max_operand
            IN  CASE q.display[2] = "+" ->
                        /\ a \in lo..hi
                        /\ b \in lo..hi
                        /\ IsSum(a, b, q.answer)
                  [] q.display[2] = "-" ->
                        /\ a \in lo..hi
                        /\ b \in lo..a
                        /\ IsDifference(a, b, q.answer)
                        /\ q.answer >= 0
                  [] OTHER ->
                        /\ a \in 2..MulMax(config.quiz)
                        /\ b \in 2..MulMax(config.quiz)
                        /\ q.answer = a * b

-----------------------------------------------------------------------------
(* C38 *)

-----------------------------------------------------------------------------
(* C39 *)

\* C39: when set_schedule_enabled(e) returns true, the step of its
\* UpdateSchedule leaves the daemon with the flag e and with the rule list
\* the daemon held just before that step, in the engine and in the config,
\* whatever other clients did since its GetSchedule.
C39_OnlyEnabledChanges ==
    [][(ui.pc = "fetched" /\ ui'.returned = "true") =>
          /\ schedule' = [enabled |-> ui.enabled, rules |-> schedule.rules]
          /\ config'.schedule = [enabled |-> ui.enabled,
                                 rules |-> config.schedule.rules]]_vars

-----------------------------------------------------------------------------
(* C35 *)

\* the tasks holding the AppState lock, shared or exclusive
OuterHolders == lock.outer.readers \cup lock.outer.writer

\* C35: the config lock is write-held only by the task that holds the
\* AppState lock exclusively, and nobody holds the AppState lock next to a
\* writer; so whatever get() returns to a task, in the decision of a query
\* or in a handler, is the in-memory config and never the default.
C35_GetNeverDefault ==
    /\ [](/\ lock.inner.writer \subseteq lock.outer.writer
          /\ lock.outer.writer # {} =>
                Cardinality(lock.outer.writer) = 1 /\ lock.outer.readers = {})
    /\ [][\A h \in DOMAIN thread :
            thread'[h].got # thread[h].got =>
                /\ h \in OuterHolders
                /\ thread'[h].got = <<config>>
                /\ thread'[h].got # <<DefaultConfig>>]_vars

\* a GetBlocklist waits for the AppState lock while an AddDomain holds the
\* config lock for writing, and a query task decided earlier on the config
\* get() returned
C35_Witness ==
    /\ \E h \in DOMAIN thread : thread[h].cmd.type = "AddDomain" /\ lock.inner.writer = {h}
    /\ \E h \in DOMAIN thread :
          /\ thread[h].cmd.type = "GetBlocklist"
          /\ thread[h].pc = "waiting"
    /\ \E h \in DOMAIN thread :
          /\ thread[h].cmd.type = "Query"
          /\ thread[h].got = <<config>>

-----------------------------------------------------------------------------
(* C36 *)

\* the tasks waiting for the AppState lock in the given mode
Waiting(mode) ==
    {lock.outer.queue[i].thread :
        i \in {j \in 1..Len(lock.outer.queue) : lock.outer.queue[j].mode = mode}}

\* task h was spawned and has finished: a query task has updated its
\* counter, a handler has its response
Finished(h) ==
    /\ h \in DOMAIN thread
    /\ thread[h].pc = "done"
    /\ thread[h].cmd.type # "Query" => thread[h].response # <<>>

\* C36: no task waits for the AppState lock while it holds it, shared or
\* exclusive; the config lock is held only by a holder of the AppState lock;
\* and, with a lock that serves its waiters in turn and a runtime that runs
\* every task that can run, every task spawned finishes: a handler gets its
\* response and a query task updates its counter.
C36_NoDeadlock ==
    /\ [](/\ (Waiting("read") \cup Waiting("write")) \cap OuterHolders = {}
          /\ lock.inner.writer \subseteq OuterHolders)
    /\ \A h \in 1..MaxThreads : (h \in DOMAIN thread) ~> Finished(h)

\* a query task waits for the write guard, its read guard dropped, behind a
\* handler that holds the lock exclusively; later all three tasks finish
C36_Witness ==
    /\ \E h \in DOMAIN thread :
          /\ thread[h].cmd.type = "Query"
          /\ thread[h].got # <<>>
          /\ h \in Waiting("write")
    /\ \E h \in DOMAIN thread :
          /\ thread[h].cmd.type = "RemoveDomain"
          /\ lock.outer.writer = {h}
    /\ Len(thread) = MaxThreads

-----------------------------------------------------------------------------
(* C37 *)

\* the handlers that have answered a submission for challenge c
Submitted(c) ==
    {h \in DOMAIN thread :
        /\ thread[h].cmd.type = "SubmitQuizAnswers"
        /\ thread[h].cmd.challenge_id = c
        /\ thread[h].pc = "done"}

Succeeded(h) == thread[h].response[1].type = "Success"

NotFound(h) ==
    /\ thread[h].response[1].type = "Error"
    /\ thread[h].response[1].code = "quiz_not_found"

\* C37 as stated: of the connections that submitted answers for one
\* challenge at the same time, at most one has Success and every other one
\* has quiz_not_found.
C37_OthersNotFound ==
    \A c \in 1..MaxThreads :
        Cardinality(Submitted(c)) >= 2 =>
            /\ Cardinality({h \in Submitted(c) : Succeeded(h)}) <= 1
            /\ \A h \in Submitted(c) : Succeeded(h) \/ NotFound(h)

\* C37: of the connections that submitted answers for one challenge at the
\* same time, at most one has an answer other than quiz_not_found, the one
\* whose submission found the challenge: Success when its answers pass,
\* else the error of its failure; so at most one has Success, and the
\* bypass is activated at most once per challenge.
C37_OneVerdictPerChallenge ==
    \A c \in 1..MaxThreads :
        /\ Cardinality({h \in Submitted(c) : ~NotFound(h)}) <= 1
        /\ Cardinality({h \in Submitted(c) : Succeeded(h)}) <= 1

\* two connections have submitted the right answers for challenge 1: one has
\* Success, the other quiz_not_found
C37_Witness ==
    \E h1, h2 \in Submitted(1) :
        /\ h1 # h2
        /\ thread[h1].cmd.answers = <<4>>
        /\ thread[h2].cmd.answers = <<4>>
        /\ Succeeded(h1)
        /\ NotFound(h2)
        /\ bypass_until # <<>>
====
